---- MODULE Spec2Model ----
(***************************************************************************)
(* A model of the ray tracer core (src/src/core): the vector algebra, the  *)
(* interval test, sphere intersection, front-face determination, the       *)
(* scene's nearest-hit scan, material scattering, the recursive colour     *)
(* function, the camera and its render with one task per row.              *)
(*                                                                         *)
(* Numbers.  An f64 is modelled as a fixed-point integer counting units of *)
(* 1/Scale, together with the three special values INFINITY, NegInf and    *)
(* NaN.  Every arithmetic operator rounds its exact result to the nearest  *)
(* unit, symmetrically in the sign (as IEEE round-to-nearest is), and      *)
(* propagates the special values the way IEEE-754 does.  The sign of zero  *)
(* is not modelled.                                                        *)
(***************************************************************************)
EXTENDS Integers, Sequences, FiniteSets, TLC

\* ------------------------------------------------------------ f64 -----

\* Units per 1.0: one unit is 0.001, the shadow-acne epsilon of Ray::color.
Scale == 1000

\* f64::INFINITY: larger than every finite value of the model.
INFINITY == 1000000000

NegInf == -INFINITY

NaN == 2 * INFINITY

IsNaN(x) == x = NaN

IsInf(x) == x = INFINITY \/ x = NegInf

Sgn(x) == IF x < 0 THEN -1 ELSE IF x > 0 THEN 1 ELSE 0

Abs(x) == IF x < 0 THEN -x ELSE x

\* n / d rounded to the nearest integer, for n >= 0 and d > 0.
RoundDiv(n, d) == (2 * n + d) \div (2 * d)

FNeg(x) == IF IsNaN(x) THEN NaN ELSE -x

FAdd(x, y) ==
    IF IsNaN(x) \/ IsNaN(y) THEN NaN
    ELSE IF IsInf(x) THEN (IF IsInf(y) /\ y # x THEN NaN ELSE x)
    ELSE IF IsInf(y) THEN y
    ELSE x + y

FSub(x, y) == FAdd(x, FNeg(y))

FMul(x, y) ==
    IF IsNaN(x) \/ IsNaN(y) THEN NaN
    ELSE IF IsInf(x) \/ IsInf(y)
         THEN (IF x = 0 \/ y = 0 THEN NaN ELSE Sgn(x) * Sgn(y) * INFINITY)
    ELSE Sgn(x) * Sgn(y) * RoundDiv(Abs(x) * Abs(y), Scale)

FDiv(x, y) ==
    IF IsNaN(x) \/ IsNaN(y) THEN NaN
    ELSE IF IsInf(x) THEN (IF IsInf(y) THEN NaN
                           ELSE Sgn(x) * (IF y < 0 THEN -1 ELSE 1) * INFINITY)
    ELSE IF IsInf(y) THEN 0
    ELSE IF y = 0 THEN (IF x = 0 THEN NaN ELSE Sgn(x) * INFINITY)
    ELSE Sgn(x) * Sgn(y) * RoundDiv(Abs(x) * Scale, Abs(y))

\* Comparisons: every comparison with NaN is false.
FLt(x, y) == ~IsNaN(x) /\ ~IsNaN(y) /\ x < y

FLe(x, y) == ~IsNaN(x) /\ ~IsNaN(y) /\ x <= y

FGt(x, y) == FLt(y, x)

\* f64::max and f64::min return the other operand when one is NaN.
FMax(x, y) == IF IsNaN(x) THEN y ELSE IF IsNaN(y) THEN x ELSE IF x < y THEN y ELSE x

FMin(x, y) == IF IsNaN(x) THEN y ELSE IF IsNaN(y) THEN x ELSE IF y < x THEN y ELSE x

FAbs(x) == IF IsNaN(x) THEN NaN ELSE Abs(x)

\* f64::clamp(lo, hi): NaN stays NaN.
FClamp(x, lo, hi) == IF IsNaN(x) THEN NaN ELSE IF x < lo THEN lo ELSE IF x > hi THEN hi ELSE x

RECURSIVE IsqrtIter(_, _, _)
\* The largest r in lo..hi with r * r <= n (bisection).
IsqrtIter(n, lo, hi) ==
    IF lo >= hi THEN lo
    ELSE LET mid == (lo + hi + 1) \div 2
         IN  IF mid * mid <= n THEN IsqrtIter(n, mid, hi)
             ELSE IsqrtIter(n, lo, mid - 1)

Isqrt(n) == IsqrtIter(n, 0, 46340)

\* f64::sqrt: NaN for a negative argument; the root is rounded to the nearest unit.
FSqrt(x) ==
    IF IsNaN(x) \/ x < 0 THEN NaN
    ELSE IF x = INFINITY THEN INFINITY
    ELSE LET r == Isqrt(x * Scale)
         IN  IF x * Scale - r * r > r THEN r + 1 ELSE r

\* ----------------------------------------------------------- Vec3 -----

Vec3(x, y, z) == <<x, y, z>>

VZero == Vec3(0, 0, 0)

VNeg(v) == Vec3(FNeg(v[1]), FNeg(v[2]), FNeg(v[3]))

VAdd(v, w) == Vec3(FAdd(v[1], w[1]), FAdd(v[2], w[2]), FAdd(v[3], w[3]))

VSub(v, w) == Vec3(FSub(v[1], w[1]), FSub(v[2], w[2]), FSub(v[3], w[3]))

VMul(v, w) == Vec3(FMul(v[1], w[1]), FMul(v[2], w[2]), FMul(v[3], w[3]))

VScale(v, f) == Vec3(FMul(f, v[1]), FMul(f, v[2]), FMul(f, v[3]))

VDivS(v, f) == Vec3(FDiv(v[1], f), FDiv(v[2], f), FDiv(v[3], f))

NormSq(v) == FAdd(FAdd(FMul(v[1], v[1]), FMul(v[2], v[2])), FMul(v[3], v[3]))

Norm(v) == FSqrt(NormSq(v))

Dot(v, w) == FAdd(FAdd(FMul(v[1], w[1]), FMul(v[2], w[2])), FMul(v[3], w[3]))

Cross(v, w) ==
    Vec3(FSub(FMul(v[2], w[3]), FMul(v[3], w[2])),
         FSub(FMul(v[3], w[1]), FMul(v[1], w[3])),
         FSub(FMul(v[1], w[2]), FMul(v[2], w[1])))

Unit(v) == VDivS(v, Norm(v))

\* NEAR_ZERO_EPSILON = 1e-8 is below one unit: only 0 is smaller in absolute value.
IsNearZero(v) == \A i \in 1..3 : ~IsNaN(v[i]) /\ Abs(v[i]) < 1

HasNaN(v) == \E i \in 1..3 : IsNaN(v[i])

\* --------------------------------------------------------- Option -----

None == <<>>

Some(x) == <<x>>

IsSome(o) == o # <<>>

Unwrap(o) == o[1]

\* ------------------------------------------------- Interval, Ray ------

Interval(start, end) == [start |-> start, end |-> end]

IntervalFrom(start) == [start |-> start, end |-> INFINITY]

\* Broken variant: the closed test (the commented-out `contains`).
SurroundsClosed(range, value) == FLe(range.start, value) /\ FLe(value, range.end)

Surrounds(range, value) == FLt(range.start, value) /\ FLt(value, range.end)

White == Vec3(Scale, Scale, Scale)

Black == Vec3(0, 0, 0)

RayNew(origin, direction) ==
    [origin |-> origin, direction |-> direction, attenuation |-> White]

\* Broken variant: the ray starts at the origin of the coordinates.
RayNewcAtZero(origin, direction, color) ==
    [origin |-> VZero, direction |-> direction, attenuation |-> color]

RayNewc(origin, direction, color) ==
    [origin |-> origin, direction |-> direction, attenuation |-> color]

RayAt(ray, t) == VAdd(ray.origin, VScale(ray.direction, t))

\* ------------------------------------------------------ Hit, Sphere ---

\* Broken variant: the face flag is computed but the normal is never flipped.
DetermineFrontFaceNoFlip(ray, outward_normal) ==
    [normal |-> outward_normal,
     is_front_face |-> FLt(Dot(ray.direction, outward_normal), 0)]

DetermineFrontFace(ray, outward_normal) ==
    LET is_front_face == FLt(Dot(ray.direction, outward_normal), 0)
    IN  [normal |-> IF is_front_face THEN outward_normal ELSE VNeg(outward_normal),
         is_front_face |-> is_front_face]

SphereNew(center, radius, material) ==
    [center |-> center, radius |-> FMax(0, radius), material |-> material]

\* discr = h * h - a * c.
Discriminant(a, h, c) == FSub(FMul(h, h), FMul(a, c))

\* The quadratic of a ray of direction d towards a centre at cq, radius r: <<a, h, discr>>.
QuadraticOf(d, cq, r) ==
    <<NormSq(d), Dot(d, cq),
      Discriminant(NormSq(d), Dot(d, cq), FSub(NormSq(cq), FMul(r, r)))>>

SphereQuadratic(sphere, ray) ==
    QuadraticOf(ray.direction, VSub(sphere.center, ray.origin), sphere.radius)

\* t1 = (h - sqrt(discr)) / a and t2 = (h + sqrt(discr)) / a of a quadratic <<a, h, discr>>.
Root1(q) == FDiv(FSub(q[2], FSqrt(q[3])), q[1])

Root2(q) == FDiv(FAdd(q[2], FSqrt(q[3])), q[1])

SphereT1(sphere, ray) == Root1(SphereQuadratic(sphere, ray))

SphereT2(sphere, ray) == Root2(SphereQuadratic(sphere, ray))

\* The Hit record, from the pair determine_front_face returned.
MakeHit(t, point, ff, material) ==
    Some([t |-> t, point |-> point, normal |-> ff.normal,
          is_front_face |-> ff.is_front_face, material |-> material])

HitAtPoint(sphere, ray, t, point) ==
    MakeHit(t, point,
            DetermineFrontFace(ray, VDivS(VSub(point, sphere.center), sphere.radius)),
            sphere.material)

SphereHitAt(sphere, ray, t) == HitAtPoint(sphere, ray, t, RayAt(ray, t))

\* Broken variant: the larger root is tried first.
ChooseRootFarFirst(sphere, ray, t_range, t1, t2) ==
    IF Surrounds(t_range, t2) THEN SphereHitAt(sphere, ray, t2)
    ELSE IF Surrounds(t_range, t1) THEN SphereHitAt(sphere, ray, t1)
    ELSE None

\* "Choose a plausible root".
ChooseRoot(sphere, ray, t_range, t1, t2) ==
    IF Surrounds(t_range, t1) THEN SphereHitAt(sphere, ray, t1)
    ELSE IF Surrounds(t_range, t2) THEN SphereHitAt(sphere, ray, t2)
    ELSE None

SphereHitOf(sphere, ray, t_range, q) ==
    IF FLt(q[3], 0) THEN None
    ELSE ChooseRoot(sphere, ray, t_range, Root1(q), Root2(q))

SphereHit(sphere, ray, t_range) ==
    SphereHitOf(sphere, ray, t_range, SphereQuadratic(sphere, ray))

\* Object is an enum with the one variant Sphere: dispatch is the sphere's hit.
ObjectHit(obj, ray, t_range) == SphereHit(obj, ray, t_range)

\* ---------------------------------------------------------- Scene -----

SceneNew == <<>>

\* ToObject::wrap: Object::Sphere(self).
Wrap(obj) == obj

SceneAdd(l, obj) == Append(l, Wrap(obj))

\* Broken variant: the appended objects take the place of the earlier ones.
SceneAppendReplaces(l, objs) == [i \in 1..Len(objs) |-> Wrap(objs[i])]

SceneAppend(l, objs) == l \o [i \in 1..Len(objs) |-> Wrap(objs[i])]

SceneFrom(objs) == [i \in 1..Len(objs) |-> Wrap(objs[i])]

\* Broken variant: clear leaves the first object behind.
SceneClearKeepsFirst(l) == IF l = <<>> THEN <<>> ELSE <<l[1]>>

SceneClear(l) == <<>>

RECURSIVE SceneScan(_, _, _, _, _, _)
\* Broken variant: the first hit found is kept, whatever comes later.
ScanStepKeepsFirst(l, i, ray, start, t_max, closest_hit, hit) ==
    IF IsSome(hit) /\ ~IsSome(closest_hit)
    THEN SceneScan(l, i + 1, ray, start, Unwrap(hit).t, hit)
    ELSE SceneScan(l, i + 1, ray, start, t_max, closest_hit)

\* One iteration of the loop of Scene::hit: `hit` is what object i returned.
ScanStep(l, i, ray, start, t_max, closest_hit, hit) ==
    IF IsSome(hit)
    THEN SceneScan(l, i + 1, ray, start, Unwrap(hit).t, hit)
    ELSE SceneScan(l, i + 1, ray, start, t_max, closest_hit)

\* Broken variant: the list is scanned from its last object to its first.
SceneScanBackwards(l, i, ray, start, t_max, closest_hit) ==
    IF i > Len(l) THEN closest_hit
    ELSE ScanStep(l, i, ray, start, t_max, closest_hit,
                  ObjectHit(l[Len(l) + 1 - i], ray, Interval(start, t_max)))

\* The loop of Scene::hit from object i on, with the loop's t_max and closest_hit.
SceneScan(l, i, ray, start, t_max, closest_hit) ==
    IF i > Len(l) THEN closest_hit
    ELSE ScanStep(l, i, ray, start, t_max, closest_hit,
                  ObjectHit(l[i], ray, Interval(start, t_max)))

RECURSIVE SceneScanNoShrink(_, _, _, _, _)
ScanStepNoShrink(l, i, ray, t_range, closest_hit, hit) ==
    SceneScanNoShrink(l, i + 1, ray, t_range, IF IsSome(hit) THEN hit ELSE closest_hit)

SceneScanNoShrink(l, i, ray, t_range, closest_hit) ==
    IF i > Len(l) THEN closest_hit
    ELSE ScanStepNoShrink(l, i, ray, t_range, closest_hit, ObjectHit(l[i], ray, t_range))

\* Broken variant: every object is queried with the caller's interval (t_max never shrinks).
SceneHitNoShrink(l, ray, t_range) == SceneScanNoShrink(l, 1, ray, t_range, None)

SceneHit(l, ray, t_range) == SceneScan(l, 1, ray, t_range.start, t_range.end, None)

\* ------------------------------------------------------- Material -----

Absorbant == [kind |-> "Absorbant"]

Matte(color) == [kind |-> "Matte", color |-> color]

Metal(color, fuzz) == [kind |-> "Metal", color |-> color, fuzz |-> fuzz]

Dielectric(ridx) == [kind |-> "Dielectric", ridx |-> ridx]

\* Vec3::random(-1..1) as drawn inside random_unit: the loop's acceptance test.
\* 1e-160 is below one unit, so the lower end admits every positive squared norm.
RandomUnitAccepts(vec) == FLt(0, NormSq(vec)) /\ FLt(NormSq(vec), Scale)

ReflectDir(incoming, normal) ==
    LET factor == FMul(2 * Scale, Dot(incoming, normal))
    IN  VSub(incoming, VScale(normal, factor))

RefractDir(incoming, normal, ridx_ratio) ==
    LET direction == Unit(incoming)
        cos_theta == FMin(Scale, Dot(VNeg(direction), normal))
        r_perp == VScale(VAdd(direction, VScale(normal, cos_theta)), ridx_ratio)
        r_parl == VScale(normal, FNeg(FSqrt(FAbs(FSub(Scale, NormSq(r_perp))))))
    IN  VAdd(r_perp, r_parl)

\* f64::powi(5).
Pow5(x) == FMul(FMul(FMul(FMul(x, x), x), x), x)

Reflectance(cos, ridx1, ridx2) ==
    LET r0_sqrt == FDiv(FSub(ridx1, ridx2), FAdd(ridx1, ridx2))
        r0 == FMul(r0_sqrt, r0_sqrt)
    IN  FAdd(r0, FMul(FSub(Scale, r0), Pow5(FSub(Scale, cos))))

\* Broken variant: the sum is the direction even when it is near zero.
ScatterMatteNoFallback(hit, color, vec) ==
    Some(RayNewc(hit.point, VAdd(hit.normal, Unit(vec)), color))

\* `vec` is the sample random_unit's loop accepted.
ScatterMatte(hit, color, vec) ==
    LET sum == VAdd(hit.normal, Unit(vec))
        direction == IF IsNearZero(sum) THEN hit.normal ELSE sum
    IN  Some(RayNewc(hit.point, direction, color))

\* Broken variant: the fuzz is used as given.
ScatterMetalUnclamped(ray, hit, color, fuzz, vec) ==
    LET direction == VAdd(ReflectDir(ray.direction, hit.normal), VScale(Unit(vec), fuzz))
    IN  IF FGt(Dot(direction, hit.normal), 0)
        THEN Some(RayNewc(hit.point, direction, color))
        ELSE None

ScatterMetal(ray, hit, color, fuzz, vec) ==
    LET f == FClamp(fuzz, 0, Scale)
        direction == VAdd(ReflectDir(ray.direction, hit.normal), VScale(Unit(vec), f))
    IN  IF FGt(Dot(direction, hit.normal), 0)
        THEN Some(RayNewc(hit.point, direction, color))
        ELSE None

\* The ratio of the refraction indices on the side the ray comes from.
RefractionRatio(hit, ridx) == IF hit.is_front_face THEN FDiv(Scale, ridx) ELSE ridx

CosTheta(unit_dir, normal) == FMin(Scale, FNeg(Dot(unit_dir, normal)))

SinTheta(cos_theta) == FSqrt(FSub(Scale, FMul(cos_theta, cos_theta)))

CanRefract(ri, sin_theta) == FLe(FMul(ri, sin_theta), Scale)

\* Broken variant: a ray that is not refracted is absorbed.
ScatterDielectricAbsorbs(ray, hit, ridx, draw) ==
    LET ri == RefractionRatio(hit, ridx)
        unit_dir == Unit(ray.direction)
        cos_theta == CosTheta(unit_dir, hit.normal)
    IN  IF CanRefract(ri, SinTheta(cos_theta))
           \/ FGt(Reflectance(cos_theta, Scale, ridx), draw)
        THEN Some(RayNew(hit.point, RefractDir(unit_dir, hit.normal, ri)))
        ELSE None

\* `draw` is the value of rand::random_range(0.0 .. 1.0).
ScatterDielectric(ray, hit, ridx, draw) ==
    LET ri == RefractionRatio(hit, ridx)
        unit_dir == Unit(ray.direction)
        cos_theta == CosTheta(unit_dir, hit.normal)
    IN  IF CanRefract(ri, SinTheta(cos_theta))
           \/ FGt(Reflectance(cos_theta, Scale, ridx), draw)
        THEN Some(RayNew(hit.point, RefractDir(unit_dir, hit.normal, ri)))
        ELSE Some(RayNew(hit.point, ReflectDir(ray.direction, hit.normal)))

\* Broken variant: an absorbant surface scatters like a white matte one.
ScatterNeverAbsorbs(material, ray, hit, vec, draw) ==
    IF material.kind = "Absorbant" THEN ScatterMatte(hit, White, vec)
    ELSE IF material.kind = "Matte" THEN ScatterMatte(hit, material.color, vec)
    ELSE IF material.kind = "Metal"
         THEN ScatterMetal(ray, hit, material.color, material.fuzz, vec)
    ELSE ScatterDielectric(ray, hit, material.ridx, draw)

\* Material::scatter, given the random values its branch draws.
Scatter(material, ray, hit, vec, draw) ==
    IF material.kind = "Absorbant" THEN None
    ELSE IF material.kind = "Matte" THEN ScatterMatte(hit, material.color, vec)
    ELSE IF material.kind = "Metal"
         THEN ScatterMetal(ray, hit, material.color, material.fuzz, vec)
    ELSE ScatterDielectric(ray, hit, material.ridx, draw)

\* -------------------------------------------------------- Ray::color ---

\* The interval of Ray::color's scene query: Interval::from(0.001).
ColorRange == IntervalFrom(1)

SkyBlue == Vec3(500, 700, Scale)

\* Broken variant: both colours are weighted by a.
BackgroundSameWeight(ray) ==
    LET a == FMul(500, FAdd(Unit(ray.direction)[2], Scale))
    IN  VAdd(VScale(White, a), VScale(SkyBlue, a))

Background(ray) ==
    LET a == FMul(500, FAdd(Unit(ray.direction)[2], Scale))
        white == VScale(White, FSub(Scale, a))
        blue == VScale(SkyBlue, a)
    IN  VAdd(white, blue)

\* Broken variant: the budget test is missing.
BudgetNeverExhausted(bounces) == FALSE

BudgetExhausted(bounces) == bounces = 0

\* Broken variant: the recursive call gets the caller's budget.
SameBounces(bounces) == bounces

NextBounces(bounces) == bounces - 1

\* Broken variant: the attenuation is added to the colour.
AttenuateAdd(scattered_ray, color) == VAdd(scattered_ray.attenuation, color)

Attenuate(scattered_ray, color) == VMul(scattered_ray.attenuation, color)

\* Ray::color as a function of the ray, the scene, the budget and the random
\* values drawn at each depth (rnds[b] is drawn by the call whose budget is b).
RECURSIVE RayColor(_, _, _, _)

ColorOfScatter(l, bounces, rnds, scattered) ==
    IF IsSome(scattered)
    THEN Attenuate(Unwrap(scattered),
                   RayColor(Unwrap(scattered), l, NextBounces(bounces), rnds))
    ELSE Black

ColorOfHit(ray, l, bounces, rnds, hit) ==
    IF hit = None
    THEN Background(ray)
    ELSE ColorOfScatter(l, bounces, rnds,
                        Scatter(Unwrap(hit).material, ray, Unwrap(hit),
                                rnds[bounces][1], rnds[bounces][2]))

RayColor(ray, l, bounces, rnds) ==
    IF BudgetExhausted(bounces)
    THEN Black
    ELSE ColorOfHit(ray, l, bounces, rnds, SceneHit(l, ray, ColorRange))

\* ---------------------------------------------------------- camera ----

\* usize as f64.
AsF64(n) == n * Scale

\* f64::tan of an angle given in degrees, on the angles the setups use.
TanDegrees(deg) ==
    CASE deg = 0 -> 0
      [] deg = -5 * Scale -> -87
      [] deg = 5 * Scale -> 87
      [] deg = 22500 -> 414
      [] deg = 45 * Scale -> Scale

CameraSetup(width, height, v_fov, lookfrom, lookat, view_up, defocus_angle, focus_distance) ==
    [width |-> width, height |-> height, v_fov |-> v_fov,
     lookfrom |-> lookfrom, lookat |-> lookat, view_up |-> view_up,
     defocus_angle |-> defocus_angle, focus_distance |-> focus_distance]

\* CameraSetup::default(): the focus distance is the distance from lookfrom to
\* lookat, which is 1.
DefaultSetup ==
    CameraSetup(400, 225, 45 * Scale, VZero, Vec3(0, 0, -Scale), Vec3(0, Scale, 0),
                0, Scale)

\* (width, height) of the viewport.
ViewportOf(setup, height) ==
    <<FDiv(FMul(height, AsF64(setup.width)), AsF64(setup.height)), height>>

ViewportDimensions(setup) ==
    ViewportOf(setup,
               FMul(FMul(2 * Scale, TanDegrees(FDiv(setup.v_fov, 2 * Scale))),
                    setup.focus_distance))

UpperLeftPx(camera_center, focus_dist, w, vp_u, vp_v, px_d_u, px_d_v) ==
    LET vp_00 == VSub(VSub(VSub(camera_center, VScale(w, focus_dist)),
                           VDivS(vp_u, 2 * Scale)),
                      VDivS(vp_v, 2 * Scale))
    IN  VAdd(vp_00, VDivS(VAdd(px_d_u, px_d_v), 2 * Scale))

\* The Camera built from the setup, its basis and its viewport edges.
CameraOf(setup, w, u, v, vp_u, vp_v, px_d_u, px_d_v, defocus_radius) ==
    [img_size |-> <<setup.width, setup.height>>,
     center |-> setup.lookfrom,
     px_d_u |-> px_d_u,
     px_d_v |-> px_d_v,
     px_00 |-> UpperLeftPx(setup.lookfrom, setup.focus_distance, w,
                           vp_u, vp_v, px_d_u, px_d_v),
     samples_per_px |-> 1,
     bounces |-> 1,
     defocus_angle |-> setup.defocus_angle,
     defocus_disk_u |-> VScale(u, defocus_radius),
     defocus_disk_v |-> VScale(v, defocus_radius)]

CameraEdges(setup, w, u, v, vp_u, vp_v) ==
    CameraOf(setup, w, u, v, vp_u, vp_v,
             VDivS(vp_u, AsF64(setup.width)), VDivS(vp_v, AsF64(setup.height)),
             FMul(setup.focus_distance,
                  TanDegrees(FDiv(setup.defocus_angle, 2 * Scale))))

CameraBasis(setup, w, u, v, vp) ==
    CameraEdges(setup, w, u, v, VScale(u, vp[1]), VNeg(VScale(v, vp[2])))

CameraUV(setup, w, u, vp) == CameraBasis(setup, w, u, Cross(w, u), vp)

CameraW(setup, w, vp) == CameraUV(setup, w, Unit(Cross(setup.view_up, w)), vp)

CameraNew(setup) ==
    CameraW(setup, Unit(VSub(setup.lookfrom, setup.lookat)), ViewportDimensions(setup))

\* u32::max.
Max(a, b) == IF a < b THEN b ELSE a

\* Broken variant: the sample count is taken as given.
AntiAliasingUnchecked(camera, samples) == [camera EXCEPT !.samples_per_px = samples]

AntiAliasing(camera, samples) == [camera EXCEPT !.samples_per_px = Max(1, samples)]

Bounces(camera, bounces) == [camera EXCEPT !.bounces = bounces]

\* offset is the pair drawn from [-0.5, 0.5).
\* Broken variant: the offset is drawn whatever the number of samples.
SamplingOffsetAlways(camera, offset) == Vec3(offset[1], offset[2], 0)

SamplingOffset(camera, offset) ==
    IF camera.samples_per_px > 1 THEN Vec3(offset[1], offset[2], 0) ELSE VZero

\* The sample the loop of Vec3::random_in_unit_disk accepts.
RandomInUnitDiskAccepts(vec) == vec[3] = 0 /\ FLt(NormSq(vec), Scale)

\* disk is the vector Vec3::random_in_unit_disk returns.
SamplingDiskOffset(camera, disk) ==
    IF FGt(camera.defocus_angle, 0) THEN disk ELSE VZero

RayThrough(px_sample, origin) == RayNew(origin, VSub(px_sample, origin))

SamplingRayAt(camera, px_i, px_j, px_offset, origin_offset) ==
    RayThrough(VAdd(VAdd(camera.px_00,
                         VScale(camera.px_d_u, FAdd(AsF64(px_i), px_offset[1]))),
                    VScale(camera.px_d_v, FAdd(AsF64(px_j), px_offset[2]))),
               VAdd(VAdd(camera.center,
                         VScale(camera.defocus_disk_u, origin_offset[1])),
                    VScale(camera.defocus_disk_v, origin_offset[2])))

\* draw is what one sample draws: the antialiasing offset, the disk vector and
\* the values of the scatters.
SamplingRay(camera, px_i, px_j, draw) ==
    SamplingRayAt(camera, px_i, px_j, SamplingOffset(camera, draw.offset),
                  SamplingDiskOffset(camera, draw.disk))

\* The sum of the colours of the samples k, k+1, ... added to rgb.
RECURSIVE SampleSum(_, _, _, _, _, _, _)

SampleSum(camera, px_i, px_j, l, draws, k, rgb) ==
    IF k > camera.samples_per_px
    THEN rgb
    ELSE SampleSum(camera, px_i, px_j, l, draws, k + 1,
                   VAdd(rgb, RayColor(SamplingRay(camera, px_i, px_j, draws[k]),
                                      l, camera.bounces, draws[k].scatter)))

SamplePixel(camera, px_i, px_j, l, draws) ==
    VScale(SampleSum(camera, px_i, px_j, l, draws, 1, VZero),
           FDiv(Scale, AsF64(camera.samples_per_px)))

\* Image::init: height * width black pixels, row after row.
ImageInit(height, width) == [k \in 1..(height * width) |-> Black]

\* The cell of pixel (row, col) in Image.lines.
Cell(width, row, col) == row * width + col + 1

\* Broken variant: only the row is checked.
CheckIndexRowOnly(height, width, row, col) == row < height

\* Image::check_index: TRUE when it returns, FALSE when it panics.
CheckIndex(height, width, row, col) == row < height /\ col < width

\* IndexMut: image[(row, col)] = color, for an index that check_index lets through.
ImageIndexMut(lines, width, row, col, color) ==
    [lines EXCEPT ![Cell(width, row, col)] = color]

\* Index: image[(row, col)], for an index that check_index lets through.
ImageIndex(lines, width, row, col) == lines[Cell(width, row, col)]

\* Broken variant: every chunk is the first row.
ChunkCellFirstRow(width, row, col) == col + 1

\* The cell of Image.lines that is element col of chunk row, the chunks being
\* the consecutive pieces of `width` cells.
ChunkCell(width, row, col) == row * width + col + 1

\* ------------------------------------------------------ output::ppm ---

\* f64::powf for the exponents 1.0 and 0.5: powf(x, 1.0) is x, and powf(x, 0.5)
\* is the square root, NaN for a negative x, except that powf(-inf, 0.5) is +inf.
Powf(x, e) ==
    IF e = Scale THEN x
    ELSE IF x = NegInf THEN INFINITY
    ELSE FSqrt(x)

\* Vec3::exp: every coordinate raised to the power.
VExp(v, pwr) == Vec3(Powf(v[1], pwr), Powf(v[2], pwr), Powf(v[3], pwr))

\* `x as u8` for an f64 x: towards zero, saturating, 0 for NaN.
AsU8(x) ==
    IF IsNaN(x) \/ x <= 0 THEN 0
    ELSE IF x >= 255 * Scale THEN 255
    ELSE x \div Scale

\* Broken variant: rounds to the nearest value.
QuantiseRounded(x) == AsU8(FAdd(FMul(256 * Scale, FClamp(x, 0, 999)), 500))

\* The closure of calc_colors: (256.0 * x.clamp(0.0, 0.999)) as u8
Quantise(x) == AsU8(FMul(256 * Scale, FClamp(x, 0, 999)))

\* Vec3::to_tuple with that closure.
ToTuple(v) == <<Quantise(v[1]), Quantise(v[2]), Quantise(v[3])>>

\* calc_colors(pixel, gamma)
CalcColors(pixel, gamma_arg) == ToTuple(VExp(pixel, FDiv(Scale, gamma_arg)))

\* The ASCII bytes of the decimal form of a number, as `{}` formats it.
RECURSIVE Decimal(_)
Decimal(n) == IF n < 10 THEN <<48 + n>> ELSE Decimal(n \div 10) \o <<48 + (n % 10)>>

Newline == <<10>>

Space == <<32>>

\* "P3" for plain and "P6" for raw.
Magic(fmt) == IF fmt = "plain" THEN <<80, 51>> ELSE <<80, 54>>

\* Broken variant: the height is written before the width.
HeaderHeightFirst(fmt, width, height) ==
    Magic(fmt) \o Newline \o Decimal(height) \o Space \o Decimal(width) \o Newline
        \o Decimal(255) \o Newline

\* writeln!(writer, "P3\n{} {}\n255", image.width(), image.height())
Header(fmt, width, height) ==
    Magic(fmt) \o Newline \o Decimal(width) \o Space \o Decimal(height) \o Newline
        \o Decimal(255) \o Newline

\* writeln!(writer, "{} {} {}", r, g, b)
PlainRecord(c) ==
    Decimal(c[1]) \o Space \o Decimal(c[2]) \o Space \o Decimal(c[3]) \o Newline

\* writer.write_all(&[r, g, b])
RawRecord(c) == <<c[1], c[2], c[3]>>

PixelRecord(fmt, c) == IF fmt = "plain" THEN PlainRecord(c) ELSE RawRecord(c)

\* `for line in image`: the lines of the image, from the top one, each with its
\* pixels from left to right.
ImageLines(lines, height, width) ==
    [r \in 1..height |-> SubSeq(lines, (r - 1) * width + 1, r * width)]

\* ---------------------------------------------------------- inputs ----

\* The longest scene list explored.
MaxObjs == 3

Red == Vec3(Scale, 0, 0)

\* Objects handed to the scene: two coincident spheres of different material, a
\* sphere around the origin, and a sphere built with a negative radius.
Pool ==
    { SphereNew(Vec3(3 * Scale, 0, 0), Scale, Absorbant),
      SphereNew(Vec3(3 * Scale, 0, 0), Scale, Matte(Red)),
      SphereNew(Vec3(0, 0, 0), 2 * Scale, Metal(Red, 0)),
      SphereNew(Vec3(5 * Scale, 0, 0), -Scale, Absorbant) }

PoolSeqs(n) == UNION { [1..k -> Pool] : k \in 0..n }

Origins == { Vec3(0, 0, 0), Vec3(-4 * Scale, 0, 0), Vec3(3 * Scale, 0, 0) }

Directions ==
    { Vec3(Scale, 0, 0), Vec3(-Scale, 0, 0), Vec3(0, Scale, 0),
      Vec3(2 * Scale, 0, 0), Vec3(Scale, Scale, 0), Vec3(0, 0, 0) }

Rays == { RayNew(o, d) : o \in Origins, d \in Directions }

Ranges ==
    { IntervalFrom(0), IntervalFrom(1), Interval(0, Scale), Interval(0, 2 * Scale),
      Interval(2 * Scale, INFINITY), Interval(0, 5 * Scale) }

\* Outward normals handed to determine_front_face: unit vectors, as its
\* documentation requires.
Normals ==
    { Vec3(Scale, 0, 0), Vec3(-Scale, 0, 0), Vec3(0, Scale, 0), Vec3(0, -Scale, 0),
      Vec3(0, 0, Scale), Vec3(600, 800, 0), Vec3(-600, 0, -800) }

\* ------------------------------------------------------------ state ---

VARIABLES
    list,       \* Scene.list
    passed,     \* the objects handed to the scene since it was created or cleared
    emptied,    \* the scene was emptied by clear() and nothing was added since
    call,       \* the call in progress: its name and arguments, or NoCall
    ret,        \* the value that call returned
    stack,      \* Ray::color's call stack: a frame [ray, bounces] per active call
    pc,         \* Ray::color: "call" (the top frame runs), "ret" (it has returned), "done"
    value,      \* Ray::color: the colour the frame that returned last gave
    queries,    \* Ray::color: the scene.hit queries made so far
    path,       \* the attenuations of the scattered rays, in the order of scattering
    terminal,   \* how the path ended, and the colour it ended with
    setup,      \* the CameraSetup the camera was built from
    camera,     \* the Camera
    tape,       \* Camera::render: the random values each pixel's samples draw
    image,      \* Camera::render: Image.lines, the pixels row after row
    writes,     \* Camera::render: for each cell, the (row, column) of each write to it
    col,        \* Camera::render: the column the task of each row writes next
    rowpc,      \* Camera::render: each row task is at "pixels", or has "counted" its row
    remaining,  \* Camera::render: the counter of the rows not completed yet
    phase,      \* "built" (a camera exists), "rendering", "returned"; "panicked"
    format,     \* ppm: "plain" or "raw", the function that was called, or "none"
    gamma,      \* ppm: the gamma argument
    wpc,        \* ppm: "none", "header", "pixels", "flush", "returned"
    cursor,     \* ppm: <<line, pixel>>, the place of the two loops
    buffered,   \* ppm: the bytes the BufWriter holds
    out,        \* ppm: the bytes the writer below has accepted
    fault,      \* ppm: the I/O error the writer below has failed with, or "none"
    result      \* ppm: "none", "Ok", or the I/O error of Err

colorVars == <<stack, pc, value, queries, path, terminal>>

renderVars == <<setup, camera, tape, image, writes, col, rowpc, remaining, phase>>

ppmVars == <<format, gamma, wpc, cursor, buffered, out, fault, result>>

vars == <<list, passed, emptied, call, ret, colorVars, renderVars, ppmVars>>

NoCall == [op |-> "none"]

NoTerminal == [kind |-> "none", color |-> Black]

Idle == call = NoCall

\* No Ray::color call is running.
NotColoring ==
    /\ stack = <<>>
    /\ pc = "none"
    /\ value = Black
    /\ queries = 0
    /\ path = <<>>
    /\ terminal = NoTerminal

\* No camera is rendering: the default camera exists and is not used.
NotRendering ==
    /\ setup = DefaultSetup
    /\ camera = CameraNew(DefaultSetup)
    /\ tape = <<>>
    /\ image = <<>>
    /\ writes = <<>>
    /\ col = <<>>
    /\ rowpc = <<>>
    /\ remaining = 0
    /\ phase = "built"

\* No image is being encoded.
NotEncoding ==
    /\ format = "none"
    /\ gamma = Scale
    /\ wpc = "none"
    /\ cursor = <<1, 1>>
    /\ buffered = <<>>
    /\ out = <<>>
    /\ fault = "none"
    /\ result = "none"

Init ==
    /\ list = SceneNew
    /\ passed = <<>>
    /\ emptied = FALSE
    /\ call = NoCall
    /\ ret = None
    /\ NotColoring
    /\ NotEncoding
    /\ NotRendering

New ==
    /\ Idle
    /\ list' = SceneNew
    /\ passed' = <<>>
    /\ emptied' = FALSE
    /\ UNCHANGED <<ppmVars, renderVars, call, ret, colorVars>>

From ==
    /\ Idle
    /\ \E objs \in PoolSeqs(MaxObjs) :
          /\ list' = SceneFrom(objs)
          /\ passed' = objs
    /\ emptied' = FALSE
    /\ UNCHANGED <<ppmVars, renderVars, call, ret, colorVars>>

Add ==
    /\ Idle
    /\ Len(list) < MaxObjs
    /\ \E obj \in Pool :
          /\ list' = SceneAdd(list, obj)
          /\ passed' = Append(passed, obj)
    /\ emptied' = FALSE
    /\ UNCHANGED <<ppmVars, renderVars, call, ret, colorVars>>

AppendObjs ==
    /\ Idle
    /\ \E objs \in PoolSeqs(MaxObjs) :
          /\ Len(list) + Len(objs) <= MaxObjs
          /\ list' = SceneAppend(list, objs)
          /\ passed' = passed \o objs
          /\ emptied' = (emptied /\ objs = <<>>)
    /\ UNCHANGED <<ppmVars, renderVars, call, ret, colorVars>>

Clear ==
    /\ Idle
    /\ list' = SceneClear(list)
    /\ passed' = <<>>
    /\ emptied' = (emptied \/ passed # <<>>)
    /\ UNCHANGED <<ppmVars, renderVars, call, ret, colorVars>>

CallSceneHit ==
    /\ Idle
    /\ \E ray \in Rays, t_range \in Ranges :
          /\ call' = [op |-> "Scene::hit", ray |-> ray, t_range |-> t_range]
          /\ ret' = SceneHit(list, ray, t_range)
    /\ UNCHANGED <<ppmVars, renderVars, list, passed, emptied, colorVars>>

CallObjectHit ==
    /\ Idle
    /\ \E i \in 1..Len(list), ray \in Rays, t_range \in Ranges :
          /\ call' = [op |-> "Sphere::hit", sphere |-> list[i], ray |-> ray,
                      t_range |-> t_range]
          /\ ret' = ObjectHit(list[i], ray, t_range)
    /\ UNCHANGED <<ppmVars, renderVars, list, passed, emptied, colorVars>>

CallDetermineFrontFace ==
    /\ Idle
    /\ \E ray \in Rays, outward_normal \in Normals :
          /\ call' = [op |-> "Hit::determine_front_face", ray |-> ray,
                      outward_normal |-> outward_normal]
          /\ ret' = DetermineFrontFace(ray, outward_normal)
    /\ UNCHANGED <<ppmVars, renderVars, list, passed, emptied, colorVars>>

Return ==
    /\ ~Idle
    /\ call' = NoCall
    /\ ret' = None
    /\ UNCHANGED <<ppmVars, renderVars, list, passed, emptied, colorVars>>

Next ==
    \/ New
    \/ From
    \/ Add
    \/ AppendObjs
    \/ Clear
    \/ CallSceneHit
    \/ CallObjectHit
    \/ CallDetermineFrontFace
    \/ Return

Spec == Init /\ [][Next]_vars

\* ------------------------------------------- Ray::color, step by step --

\* The largest bounce budget a colour call is started with.
MaxBounces == 3

Grey == Vec3(500, 500, 500)

\* Two facing mirrors on the x axis, an absorbant, a matte, a glass and a
\* brushed-metal sphere on the other half-axes.
MirrorLeft == SphereNew(Vec3(-3 * Scale, 0, 0), Scale, Metal(Red, 0))

MirrorRight == SphereNew(Vec3(3 * Scale, 0, 0), Scale, Metal(Red, 0))

AbsorbantUp == SphereNew(Vec3(0, 3 * Scale, 0), Scale, Absorbant)

MatteDown == SphereNew(Vec3(0, -3 * Scale, 0), Scale, Matte(Grey))

GlassFront == SphereNew(Vec3(0, 0, -3 * Scale), Scale, Dielectric(1500))

BrushedBack == SphereNew(Vec3(0, 0, 3 * Scale), Scale, Metal(Grey, Scale))

ColorScenes ==
    { SceneNew,
      SceneFrom(<<MirrorLeft, MirrorRight>>),
      SceneFrom(<<AbsorbantUp, MatteDown>>),
      SceneFrom(<<GlassFront, BrushedBack>>),
      SceneFrom(<<MatteDown, MirrorLeft, AbsorbantUp>>),
      SceneFrom(<<MirrorLeft, MirrorRight, AbsorbantUp, MatteDown, GlassFront, BrushedBack>>) }

ColorRays ==
    { RayNew(Vec3(0, 0, 0), d) :
        d \in { Vec3(Scale, 0, 0), Vec3(-Scale, 0, 0), Vec3(0, Scale, 0),
                Vec3(0, -Scale, 0), Vec3(0, 0, Scale), Vec3(0, 0, -Scale),
                Vec3(Scale, Scale, 0), Vec3(0, -3 * Scale, Scale) } }

\* The values one coordinate of Vec3::random(-1..1) takes.
RandomCoords == { -800, 0, 600 }

RandomVecs == { Vec3(x, y, z) : x \in RandomCoords, y \in RandomCoords, z \in RandomCoords }

\* The values rand::random_range(0.0 .. 1.0) takes.
RandomDraws == { 0, 30, 500, 999 }

Top == stack[Len(stack)]

\* The hit Ray::color's scene query gives for the top frame.
TopHit == SceneHit(list, Top.ray, ColorRange)

InitColor ==
    /\ list \in ColorScenes
    /\ passed = list
    /\ emptied = FALSE
    /\ \E ray \in ColorRays, bounces \in 0..MaxBounces :
          /\ call = [op |-> "Ray::color", ray |-> ray, bounces |-> bounces]
          /\ stack = <<[ray |-> ray, bounces |-> bounces]>>
    /\ ret = None
    /\ pc = "call"
    /\ value = Black
    /\ queries = 0
    /\ path = <<>>
    /\ terminal = NoTerminal
    /\ NotRendering
    /\ NotEncoding

\* bounces == 0: black, without a scene query.
ColorExhausted ==
    /\ pc = "call"
    /\ BudgetExhausted(Top.bounces)
    /\ value' = Black
    /\ pc' = "ret"
    /\ terminal' = [kind |-> "budget", color |-> Black]
    /\ UNCHANGED <<ppmVars, renderVars, list, passed, emptied, call, ret, stack, queries, path>>

\* The scene query finds nothing: the background.
ColorBackground ==
    /\ pc = "call"
    /\ ~BudgetExhausted(Top.bounces)
    /\ TopHit = None
    /\ value' = Background(Top.ray)
    /\ queries' = queries + 1
    /\ pc' = "ret"
    /\ terminal' = [kind |-> "background", color |-> Background(Top.ray)]
    /\ UNCHANGED <<ppmVars, renderVars, list, passed, emptied, call, ret, stack, path>>

\* The random values Material::scatter draws for a material: the sample the
\* loop of random_unit accepts (matte, metal), the uniform draw (dielectric).
ScatterDraws(material) ==
    IF material.kind = "Absorbant" THEN { <<VZero, 0>> }
    ELSE IF material.kind = "Dielectric" THEN { <<VZero, draw>> : draw \in RandomDraws }
    ELSE { <<vec, 0>> : vec \in { v \in RandomVecs : RandomUnitAccepts(v) } }

\* hit.material.scatter(self, hit) for the top frame, with the random values rnd.
ScatterAt(hit, rnd) == Scatter(hit.material, Top.ray, hit, rnd[1], rnd[2])

AbsorbedAt(hit) ==
    /\ IsSome(hit)
    /\ \E rnd \in ScatterDraws(Unwrap(hit).material) : ScatterAt(Unwrap(hit), rnd) = None

\* A hit whose material absorbs the ray: black.
ColorAbsorbed ==
    /\ pc = "call"
    /\ ~BudgetExhausted(Top.bounces)
    /\ AbsorbedAt(TopHit)
    /\ value' = Black
    /\ queries' = queries + 1
    /\ pc' = "ret"
    /\ terminal' = [kind |-> "absorbed", color |-> Black]
    /\ UNCHANGED <<ppmVars, renderVars, list, passed, emptied, call, ret, stack, path>>

\* scattered_ray.color(scene, bounces - 1): a new frame.
Recurse(scattered) ==
    /\ IsSome(scattered)
    /\ stack' = Append(stack, [ray |-> Unwrap(scattered),
                               bounces |-> NextBounces(Top.bounces)])
    /\ path' = Append(path, Unwrap(scattered).attenuation)

ScatteredAt(hit) ==
    /\ IsSome(hit)
    /\ \E rnd \in ScatterDraws(Unwrap(hit).material) : Recurse(ScatterAt(Unwrap(hit), rnd))

\* A hit whose material scatters the ray: the recursive call.
ColorScattered ==
    /\ pc = "call"
    /\ ~BudgetExhausted(Top.bounces)
    /\ ScatteredAt(TopHit)
    /\ queries' = queries + 1
    /\ UNCHANGED <<ppmVars, renderVars, list, passed, emptied, call, ret, pc, value, terminal>>

\* The recursive call returned: the caller multiplies by the scattered ray's
\* attenuation and returns in turn.
ColorReturn ==
    /\ pc = "ret"
    /\ Len(stack) > 1
    /\ value' = Attenuate(Top.ray, value)
    /\ stack' = SubSeq(stack, 1, Len(stack) - 1)
    /\ UNCHANGED <<ppmVars, renderVars, list, passed, emptied, call, ret, pc, queries, path, terminal>>

\* The outermost call returns to its caller.
ColorDone ==
    /\ pc = "ret"
    /\ Len(stack) = 1
    /\ pc' = "done"
    /\ ret' = Some(value)
    /\ UNCHANGED <<ppmVars, renderVars, list, passed, emptied, call, stack, value, queries, path, terminal>>

NextColor ==
    \/ ColorExhausted
    \/ ColorBackground
    \/ ColorAbsorbed
    \/ ColorScattered
    \/ ColorReturn
    \/ ColorDone

SpecColor == InitColor /\ [][NextColor]_vars

\* -------------------------------------------------- Camera::render ----

\* The widest and the highest image rendered, and the most samples per pixel.
MaxWidth == 2

MaxHeight == 2

MaxSamples == 2

Sized(base, width, height) == [base EXCEPT !.width = width, !.height = height]

\* A camera that looks at the origin from above and aside, with a wide view.
ObliqueSetup ==
    CameraSetup(1, 1, 90 * Scale, Vec3(2 * Scale, 2 * Scale, Scale), VZero,
                Vec3(0, Scale, 0), 0, Scale)

\* A camera with an open aperture.
DefocusSetup ==
    [DefaultSetup EXCEPT !.defocus_angle = 10 * Scale, !.focus_distance = 2 * Scale]

\* Configuration errors, which the core does not validate: lookfrom == lookat,
\* view_up along the view direction, a focus distance of 0.
SamePointSetup == [DefaultSetup EXCEPT !.lookat = DefaultSetup.lookfrom]

UpAlongViewSetup == [DefaultSetup EXCEPT !.view_up = Vec3(0, 0, Scale)]

ZeroFocusSetup == [DefaultSetup EXCEPT !.focus_distance = 0]

GoodSetups == { DefaultSetup, ObliqueSetup, DefocusSetup }

ErrorSetups == { SamePointSetup, UpAlongViewSetup, ZeroFocusSetup }

\* The good setups in every size, the configuration errors with one row.
Setups ==
    { Sized(base, width, height) :
        base \in GoodSetups, width \in 1..MaxWidth, height \in 1..MaxHeight }
    \cup { Sized(base, MaxWidth, 1) : base \in ErrorSetups }

\* A matte ball that the default camera sees in its upper right corner.
MatteBall == SphereNew(Vec3(500, 500, -2 * Scale), 500, Matte(Grey))

RenderScenes == { SceneNew, SceneFrom(<<MatteBall>>) }

\* The budgets given to Camera::bounces.
RenderBounces == { 0, 1, MaxBounces }

\* What one sample draws: the antialiasing offset in [-0.5, 0.5), the vector of
\* random_in_unit_disk, and for each depth the values of the scatter.
DrawA ==
    [offset |-> <<-500, -500>>,
     disk |-> Vec3(600, 0, 0),
     scatter |-> [b \in 1..MaxBounces |-> <<Vec3(0, 600, 0), 30>>]]

DrawB ==
    [offset |-> <<250, 0>>,
     disk |-> Vec3(0, -800, 0),
     scatter |-> [b \in 1..MaxBounces |-> <<Vec3(-800, 0, 0), 500>>]]

\* The draws of the samples of one pixel: alternately one and the other.
DrawsAB == [k \in 1..MaxSamples |-> IF k % 2 = 1 THEN DrawA ELSE DrawB]

DrawsBA == [k \in 1..MaxSamples |-> IF k % 2 = 1 THEN DrawB ELSE DrawA]

\* The draws of a render, for each cell of the image: the same for every pixel,
\* or alternating from pixel to pixel.
Tapes(cells) ==
    { [k \in 1..cells |-> DrawsAB],
      [k \in 1..cells |-> IF k % 2 = 1 THEN DrawsBA ELSE DrawsAB] }

Width == camera.img_size[1]

Height == camera.img_size[2]

Rows == 0..(Height - 1)

InitRender ==
    /\ list \in RenderScenes
    /\ passed = list
    /\ emptied = FALSE
    /\ call = NoCall
    /\ ret = None
    /\ NotColoring
    /\ NotEncoding
    /\ setup \in Setups
    /\ camera = CameraNew(setup)
    /\ tape = <<>>
    /\ image = <<>>
    /\ writes = <<>>
    /\ col = <<>>
    /\ rowpc = <<>>
    /\ remaining = 0
    /\ phase = "built"

sceneVars == <<list, passed, emptied, call, ret>>

\* camera.anti_aliasing(samples)
CameraAntiAliasing ==
    /\ phase = "built"
    /\ \E samples \in 0..MaxSamples :
          /\ camera' = AntiAliasing(camera, samples)
          /\ call' = [op |-> "Camera::anti_aliasing", samples |-> samples]
    /\ UNCHANGED <<ppmVars, list, passed, emptied, ret, colorVars, setup, tape, image, writes, col,
                   rowpc, remaining, phase>>

\* camera.bounces(bounces)
CameraBounces ==
    /\ phase = "built"
    /\ \E bounces \in RenderBounces : camera' = Bounces(camera, bounces)
    /\ UNCHANGED <<ppmVars, sceneVars, colorVars, setup, tape, image, writes, col, rowpc, remaining,
                   phase>>

\* render: the image and the counter are created, and a task per row starts.
RenderStart ==
    /\ phase = "built"
    /\ tape' \in Tapes(Height * Width)
    /\ image' = ImageInit(Height, Width)
    /\ writes' = [k \in 1..(Height * Width) |-> <<>>]
    /\ remaining' = Height
    /\ col' = [row \in Rows |-> 0]
    /\ rowpc' = [row \in Rows |-> "pixels"]
    /\ phase' = "rendering"
    /\ UNCHANGED <<ppmVars, sceneVars, colorVars, setup, camera>>

\* Broken variant: the tasks share one stream of draws, consumed in the order
\* in which the pixels happen to be sampled.
RenderPixelSharedDraws(row) ==
    /\ phase = "rendering"
    /\ rowpc[row] = "pixels"
    /\ col[row] < Width
    /\ image' = [image EXCEPT ![ChunkCell(Width, row, col[row])] =
                    SamplePixel(camera, col[row], row, list,
                                tape[1 + Cardinality({k \in DOMAIN writes :
                                                         writes[k] # <<>>})])]
    /\ writes' = [writes EXCEPT ![ChunkCell(Width, row, col[row])] =
                     Append(@, <<row, col[row]>>)]
    /\ col' = [col EXCEPT ![row] = @ + 1]
    /\ UNCHANGED <<ppmVars, sceneVars, colorVars, setup, camera, tape, rowpc, remaining, phase>>

\* The task of a row writes its next pixel.
RenderPixel(row) ==
    /\ phase = "rendering"
    /\ rowpc[row] = "pixels"
    /\ col[row] < Width
    /\ image' = [image EXCEPT ![ChunkCell(Width, row, col[row])] =
                    SamplePixel(camera, col[row], row, list,
                                tape[Cell(Width, row, col[row])])]
    /\ writes' = [writes EXCEPT ![ChunkCell(Width, row, col[row])] =
                     Append(@, <<row, col[row]>>)]
    /\ col' = [col EXCEPT ![row] = @ + 1]
    /\ UNCHANGED <<ppmVars, sceneVars, colorVars, setup, camera, tape, rowpc, remaining, phase>>

\* Broken variant: a task counts its row before it writes the row's pixels.
RenderRowDoneFirst(row) ==
    /\ phase = "rendering"
    /\ rowpc[row] = "pixels"
    /\ col[row] = 0
    /\ remaining' = remaining - 1
    /\ rowpc' = [rowpc EXCEPT ![row] = "counted"]
    /\ UNCHANGED <<ppmVars, sceneVars, colorVars, setup, camera, tape, image, writes, col, phase>>

\* The task of a row has written its pixels: remaining.fetch_sub(1).
RenderRowDone(row) ==
    /\ phase = "rendering"
    /\ rowpc[row] = "pixels"
    /\ col[row] = Width
    /\ remaining' = remaining - 1
    /\ rowpc' = [rowpc EXCEPT ![row] = "counted"]
    /\ UNCHANGED <<ppmVars, sceneVars, colorVars, setup, camera, tape, image, writes, col, phase>>

\* Broken variant: render returns as soon as one task has ended.
RenderReturnEarly ==
    /\ phase = "rendering"
    /\ \E row \in Rows : rowpc[row] = "counted"
    /\ phase' = "returned"
    /\ UNCHANGED <<ppmVars, sceneVars, colorVars, setup, camera, tape, image, writes, col, rowpc,
                   remaining>>

\* Every task has ended: render returns the image.
RenderReturn ==
    /\ phase = "rendering"
    /\ \A row \in Rows : rowpc[row] = "counted"
    /\ phase' = "returned"
    /\ UNCHANGED <<ppmVars, sceneVars, colorVars, setup, camera, tape, image, writes, col, rowpc,
                   remaining>>

NextRender ==
    \/ CameraAntiAliasing
    \/ CameraBounces
    \/ RenderStart
    \/ \E row \in Rows : RenderPixel(row)
    \/ \E row \in Rows : RenderRowDone(row)
    \/ RenderReturn

SpecRender == InitRender /\ [][NextRender]_vars

\* The task of a row moves to its next pixel: the steps of RenderPixel(row),
\* told by the column the task is at.
RowAdvances(row) ==
    /\ row \in Rows
    /\ phase = "rendering"
    /\ rowpc[row] = "pixels"
    /\ col[row] < Width
    /\ col' = [col EXCEPT ![row] = @ + 1]

\* The scheduling of render: the pool runs every row task that can take a step,
\* and for_each returns once every task has ended.
RenderFairness ==
    /\ \A row \in 0..(MaxHeight - 1) : WF_col(RowAdvances(row))
    /\ \A row \in 0..(MaxHeight - 1) : WF_vars(row \in Rows /\ RenderRowDone(row))
    /\ WF_vars(RenderReturn)

SpecRenderFair == SpecRender /\ RenderFairness

\* ------------------------------------------------ Material::scatter ---

ScatterMaterials ==
    { Absorbant, Matte(Red), Matte(Grey),
      Metal(Grey, 0), Metal(Grey, 500), Metal(Red, 3 * Scale), Metal(Red, -Scale),
      Dielectric(1500), Dielectric(2400) }

\* The unit sphere the rays hit.
ScatterBall(material) == SphereNew(VZero, Scale, material)

\* Rays that hit the ball from outside (head-on, aside, not of unit length) and
\* from inside (head-on, aside, nearly along the surface).
ScatterRays ==
    { RayNew(Vec3(-3 * Scale, 0, 0), Vec3(Scale, 0, 0)),
      RayNew(Vec3(-3 * Scale, 0, 0), Vec3(2 * Scale, 0, 0)),
      RayNew(Vec3(-3 * Scale, 600, 0), Vec3(Scale, 0, 0)),
      RayNew(Vec3(-3 * Scale, 900, 0), Vec3(Scale, 0, 0)),
      RayNew(VZero, Vec3(Scale, 0, 0)),
      RayNew(VZero, Vec3(0, 0, -2 * Scale)),
      RayNew(Vec3(600, 0, 0), Vec3(0, Scale, 0)),
      RayNew(Vec3(900, 0, 0), Vec3(0, Scale, 0)) }

InitScatter ==
    /\ list = SceneNew
    /\ passed = <<>>
    /\ emptied = FALSE
    /\ call = NoCall
    /\ ret = None
    /\ NotColoring
    /\ NotEncoding
    /\ NotRendering

\* material.scatter(ray, hit) returns, having drawn rnd.
ScatterCall(material, ray, hit, rnd) ==
    /\ call' = [op |-> "Material::scatter", material |-> material, ray |-> ray,
                hit |-> hit, vec |-> rnd[1], draw |-> rnd[2]]
    /\ ret' = Scatter(material, ray, hit, rnd[1], rnd[2])

\* The ray hits the ball, and the material of the ball scatters it.
ScatterOnHit(material, ray, hit) ==
    /\ IsSome(hit)
    /\ \E rnd \in ScatterDraws(material) : ScatterCall(material, ray, Unwrap(hit), rnd)

CallScatter ==
    /\ Idle
    /\ \E material \in ScatterMaterials, ray \in ScatterRays :
          ScatterOnHit(material, ray, SphereHit(ScatterBall(material), ray, ColorRange))
    /\ UNCHANGED <<ppmVars, renderVars, list, passed, emptied, colorVars>>

NextScatter ==
    \/ CallScatter
    \/ Return

SpecScatter == InitScatter /\ [][NextScatter]_vars

\* ------------------------------------------------------ ppm, encoding ---

Gammas == { Scale, 2 * Scale }

\* plain() and raw()
Formats == { "plain", "raw" }

IoErrors == { "BrokenPipe", "StorageFull" }

\* The colours of the images that are encoded: the pixel of ppm.rs's test,
\* values below 0 and above 1, values around 0.999, infinities and a NaN.
Palette ==
    << Vec3(0, Scale, 500), Vec3(-500, 500, 1500), Vec3(3, 998, 999),
       Vec3(4, 250, NaN), Vec3(NegInf, 996, INFINITY), Red >>

\* The images of a number of cells: two runs through the palette, and the image
\* of ppm.rs's tests, black with a red last pixel.
Pictures(cells) ==
    { [k \in 1..cells |-> Palette[((k - 1) % Len(Palette)) + 1]],
      [k \in 1..cells |-> Palette[((k + 1) % Len(Palette)) + 1]],
      [k \in 1..cells |-> IF k = cells THEN Red ELSE Black] }

\* An image of the size of the camera, as render returns it or as a caller
\* fills it, and no encoding yet.
InitPpm ==
    /\ list = SceneNew
    /\ passed = <<>>
    /\ emptied = FALSE
    /\ call = NoCall
    /\ ret = None
    /\ NotColoring
    /\ \E width \in 1..MaxWidth, height \in 1..MaxHeight :
          /\ setup = Sized(DefaultSetup, width, height)
          /\ image \in Pictures(height * width)
    /\ camera = CameraNew(setup)
    /\ tape = <<>>
    /\ writes = <<>>
    /\ col = <<>>
    /\ rowpc = <<>>
    /\ remaining = 0
    /\ phase = "returned"
    /\ NotEncoding

\* plain(image, gamma, writer) or raw(image, gamma, writer) is called: a
\* BufWriter is put around the writer.
PpmCall ==
    /\ wpc = "none"
    /\ format' \in Formats
    /\ gamma' \in Gammas
    /\ wpc' = "header"
    /\ UNCHANGED <<cursor, buffered, out, fault, result, sceneVars, colorVars, renderVars>>

\* The BufWriter takes the bytes and keeps them.
BufKeeps(bytes) ==
    /\ buffered' = buffered \o bytes
    /\ UNCHANGED <<out, fault, result>>

\* The BufWriter is full: it hands what it holds to the writer below, which
\* accepts it, and keeps the new bytes.
BufSpills(bytes) ==
    /\ out' = out \o buffered
    /\ buffered' = bytes
    /\ UNCHANGED <<fault, result>>

\* The writer below fails with e: `?` returns Err(e). The BufWriter is dropped,
\* which hands what it holds to the writer below once more, the outcome ignored.
ReturnsErr(e) ==
    /\ fault' = e
    /\ result' = e
    /\ wpc' = "returned"
    /\ \/ out' = out \o buffered /\ buffered' = <<>>
       \/ UNCHANGED <<out, buffered>>

\* The header is written.
WriteHeader ==
    /\ wpc = "header"
    /\ \/ /\ \/ BufKeeps(Header(format, Width, Height))
             \/ BufSpills(Header(format, Width, Height))
          /\ wpc' = "pixels"
          /\ UNCHANGED cursor
       \/ \E e \in IoErrors : ReturnsErr(e) /\ UNCHANGED cursor
    /\ UNCHANGED <<format, gamma, sceneVars, colorVars, renderVars>>

\* The place of the loops after the pixel at `at`.
NextCursor(at, width) == IF at[2] < width THEN <<at[1], at[2] + 1>> ELSE <<at[1] + 1, 1>>

\* Broken variant: a failed write of a pixel is dropped and the loop goes on.
WritePixelSwallowing ==
    /\ wpc = "pixels"
    /\ cursor[1] <= Height
    /\ call' = [op |-> "calc_colors",
                pixel |-> ImageLines(image, Height, Width)[cursor[1]][cursor[2]],
                gamma |-> gamma]
    /\ ret' = CalcColors(ImageLines(image, Height, Width)[cursor[1]][cursor[2]], gamma)
    /\ \/ BufKeeps(PixelRecord(format, ret'))
       \/ BufSpills(PixelRecord(format, ret'))
       \/ \E e \in IoErrors : fault' = e /\ UNCHANGED <<out, buffered, result>>
    /\ cursor' = NextCursor(cursor, Width)
    /\ UNCHANGED <<wpc, format, gamma, list, passed, emptied, colorVars, renderVars>>

\* The next pixel of the loops: its colours are calculated and written.
WritePixel ==
    /\ wpc = "pixels"
    /\ cursor[1] <= Height
    /\ call' = [op |-> "calc_colors",
                pixel |-> ImageLines(image, Height, Width)[cursor[1]][cursor[2]],
                gamma |-> gamma]
    /\ ret' = CalcColors(ImageLines(image, Height, Width)[cursor[1]][cursor[2]], gamma)
    /\ \/ /\ \/ BufKeeps(PixelRecord(format, ret'))
             \/ BufSpills(PixelRecord(format, ret'))
          /\ cursor' = NextCursor(cursor, Width)
          /\ UNCHANGED wpc
       \/ \E e \in IoErrors : ReturnsErr(e) /\ UNCHANGED cursor
    /\ UNCHANGED <<format, gamma, list, passed, emptied, colorVars, renderVars>>

\* The loops have ended.
PixelsDone ==
    /\ wpc = "pixels"
    /\ cursor[1] > Height
    /\ wpc' = "flush"
    /\ UNCHANGED <<format, gamma, cursor, buffered, out, fault, result, sceneVars, colorVars,
                   renderVars>>

\* writer.flush()?; Ok(()): the BufWriter hands what it holds to the writer
\* below and flushes it; either can fail.
Flush ==
    /\ wpc = "flush"
    /\ \/ /\ out' = out \o buffered
          /\ buffered' = <<>>
          /\ result' = "Ok"
          /\ wpc' = "returned"
          /\ UNCHANGED fault
       \/ \E e \in IoErrors : ReturnsErr(e)
       \/ \E e \in IoErrors :
             /\ out' = out \o buffered
             /\ buffered' = <<>>
             /\ fault' = e
             /\ result' = e
             /\ wpc' = "returned"
    /\ UNCHANGED <<format, gamma, cursor, sceneVars, colorVars, renderVars>>

NextPpm ==
    \/ PpmCall
    \/ WriteHeader
    \/ WritePixel
    \/ PixelsDone
    \/ Flush

SpecPpm == InitPpm /\ [][NextPpm]_vars

\* ----------------------------------------------------------- Image ----

\* The colours that are written into an image.
Inks == { Red, Black }

\* Image::init(height, width): the image of a camera of that size, not
\* rendered into.
InitImage ==
    /\ list = SceneNew
    /\ passed = <<>>
    /\ emptied = FALSE
    /\ call = NoCall
    /\ ret = None
    /\ NotColoring
    /\ NotEncoding
    /\ \E width \in 1..MaxWidth, height \in 1..MaxHeight :
          setup = Sized(DefaultSetup, width, height)
    /\ camera = CameraNew(setup)
    /\ image = ImageInit(Height, Width)
    /\ tape = <<>>
    /\ writes = <<>>
    /\ col = <<>>
    /\ rowpc = <<>>
    /\ remaining = 0
    /\ phase = "built"

\* image[(row, col)] = color
ImageWrite ==
    /\ phase = "built"
    /\ \E row \in 0..Height, column \in 0..Width, color \in Inks :
          /\ call' = [op |-> "Image::index_mut", row |-> row, col |-> column, color |-> color]
          /\ IF CheckIndex(Height, Width, row, column)
             THEN /\ image' = ImageIndexMut(image, Width, row, column, color)
                  /\ phase' = phase
             ELSE /\ image' = image
                  /\ phase' = "panicked"
    /\ UNCHANGED <<ppmVars, colorVars, list, passed, emptied, ret, setup, camera, tape, writes,
                   col, rowpc, remaining>>

\* image[(row, col)]
ImageRead ==
    /\ phase = "built"
    /\ \E row \in 0..Height, column \in 0..Width :
          /\ call' = [op |-> "Image::index", row |-> row, col |-> column]
          /\ IF CheckIndex(Height, Width, row, column)
             THEN /\ ret' = Some(ImageIndex(image, Width, row, column))
                  /\ phase' = phase
             ELSE /\ ret' = None
                  /\ phase' = "panicked"
    /\ UNCHANGED <<ppmVars, colorVars, list, passed, emptied, setup, camera, tape, image, writes,
                   col, rowpc, remaining>>

NextImage == ImageWrite \/ ImageRead

SpecImage == InitImage /\ [][NextImage]_vars

\* ------------------------------------------------ Camera::sampling_ray --

\* A camera whose aperture angle is below zero.
NegativeApertureSetup ==
    [DefaultSetup EXCEPT !.defocus_angle = -10 * Scale, !.focus_distance = 2 * Scale]

SamplingSetups ==
    { Sized(base, width, height) :
        base \in GoodSetups \cup { NegativeApertureSetup },
        width \in 1..(MaxWidth + 1), height \in 1..(MaxHeight + 1) }

InitSampling ==
    /\ list = SceneNew
    /\ passed = <<>>
    /\ emptied = FALSE
    /\ call = NoCall
    /\ ret = None
    /\ NotColoring
    /\ NotEncoding
    /\ setup \in SamplingSetups
    /\ camera = CameraNew(setup)
    /\ tape = <<>>
    /\ image = <<>>
    /\ writes = <<>>
    /\ col = <<>>
    /\ rowpc = <<>>
    /\ remaining = 0
    /\ phase = "built"

\* self.sampling_ray(px_i, px_j), with the values it draws.
CallSamplingRay ==
    /\ phase = "built"
    /\ \E px_i \in 0..(Width - 1), px_j \in 0..(Height - 1), draw \in { DrawA, DrawB } :
          /\ call' = [op |-> "Camera::sampling_ray", px_i |-> px_i, px_j |-> px_j,
                      px_offset |-> SamplingOffset(camera, draw.offset),
                      origin_offset |-> SamplingDiskOffset(camera, draw.disk)]
          /\ ret' = Some(SamplingRay(camera, px_i, px_j, draw))
    /\ UNCHANGED <<ppmVars, renderVars, colorVars, list, passed, emptied>>

NextSampling == CameraAntiAliasing \/ CallSamplingRay

SpecSampling == InitSampling /\ [][NextSampling]_vars

\* --------------------------------------------- Scene::hit, the scan ----

\* Rays along the x axis, on which the centres of the spheres of Pool lie:
\* from the origin the sphere around it and the two at x = 3 are all hit at t = 2.
ScanRays == { RayNew(o, d) : o \in Origins, d \in { Vec3(Scale, 0, 0), Vec3(-Scale, 0, 0) } }

ScanRanges == { IntervalFrom(0), Interval(0, 2 * Scale), Interval(0, 5 * Scale) }

\* A scene built from any objects in any order (Scene::from).
InitScan ==
    /\ list \in PoolSeqs(MaxObjs)
    /\ passed = <<>>
    /\ emptied = FALSE
    /\ call = NoCall
    /\ ret = None
    /\ NotColoring
    /\ NotEncoding
    /\ NotRendering

CallScan ==
    /\ Idle
    /\ \E ray \in ScanRays, t_range \in ScanRanges :
          /\ call' = [op |-> "Scene::hit", ray |-> ray, t_range |-> t_range]
          /\ ret' = SceneHit(list, ray, t_range)
    /\ UNCHANGED <<ppmVars, renderVars, list, passed, emptied, colorVars>>

NextScan ==
    \/ CallScan
    \/ Return

SpecScan == InitScan /\ [][NextScan]_vars

\* ----------------------------------------------------------- claims ---

\* The hits the objects of the scene give on their own for the query in `call`.
ObjectHits ==
    { ObjectHit(list[i], call.ray, call.t_range) : i \in 1..Len(list) } \ { None }

\* C1: Scene.hit returns the nearest intersection: if at least one object of the
\* scene has a hit inside the interval, the result is one of the objects' hits and
\* no object's hit has a smaller t; if no object has one, the result is None.
C1_NearestHit ==
    call.op = "Scene::hit" =>
        /\ ObjectHits = {} => ret = None
        /\ ObjectHits # {} =>
              /\ ret \in ObjectHits
              /\ \A h \in ObjectHits : Unwrap(ret).t <= Unwrap(h).t

\* Two objects of the scene are hit at different distances and the nearer one is
\* not the last of the list.
C1_Witness ==
    /\ call.op = "Scene::hit"
    /\ IsSome(ret)
    /\ Len(list) >= 2
    /\ \E h \in ObjectHits : Unwrap(h).t > Unwrap(ret).t
    /\ LET last == ObjectHit(list[Len(list)], call.ray, call.t_range)
       IN  IsSome(last) /\ Unwrap(last).t > Unwrap(ret).t

\* C2: a scene holding no objects, freshly created or emptied by clear(), answers
\* None to every hit query; a scene to which nothing was handed since it was
\* created or cleared holds no objects.
C2_EmptySceneNoHit ==
    /\ passed = <<>> => list = <<>>
    /\ (call.op = "Scene::hit" /\ list = <<>>) => ret = None

\* A hit query on a scene that held objects and was emptied by clear().
C2_Witness ==
    /\ call.op = "Scene::hit"
    /\ list = <<>>
    /\ emptied
    /\ ret = None

\* C3: Sphere.hit root selection: None for a negative discriminant; otherwise the
\* hit is at t1 when start < t1 < end, else at t2 when start < t2 < end, else
\* None; a ray starting inside the sphere (t1 < start < t2 < end) hits at t2 on
\* the back face.
C3_RootSelection ==
    call.op = "Sphere::hit" =>
        LET discr == SphereQuadratic(call.sphere, call.ray)[3]
            t1 == SphereT1(call.sphere, call.ray)
            t2 == SphereT2(call.sphere, call.ray)
            start == call.t_range.start
            end == call.t_range.end
            in1 == ~IsNaN(t1) /\ start < t1 /\ t1 < end
            in2 == ~IsNaN(t2) /\ start < t2 /\ t2 < end
        IN  /\ (~IsNaN(discr) /\ discr < 0) => ret = None
            /\ (~IsNaN(discr) /\ discr >= 0 /\ in1) => (IsSome(ret) /\ Unwrap(ret).t = t1)
            /\ (~IsNaN(discr) /\ discr >= 0 /\ ~in1 /\ in2) =>
                  (IsSome(ret) /\ Unwrap(ret).t = t2)
            /\ (~IsNaN(discr) /\ discr >= 0 /\ ~in1 /\ ~in2) => ret = None
            /\ (~IsNaN(t1) /\ ~IsNaN(t2) /\ t1 < start /\ start < t2 /\ t2 < end) =>
                  (IsSome(ret) /\ Unwrap(ret).t = t2 /\ ~Unwrap(ret).is_front_face)

\* A ray that starts inside a sphere and leaves it through the far root.
C3_Witness ==
    /\ call.op = "Sphere::hit"
    /\ IsSome(ret)
    /\ SphereT1(call.sphere, call.ray) < call.t_range.start
    /\ Unwrap(ret).t = SphereT2(call.sphere, call.ray)
    /\ Unwrap(ret).t # SphereT1(call.sphere, call.ray)
    /\ ~Unwrap(ret).is_front_face

\* C4: interval boundaries are excluded: every hit returned by Sphere.hit or
\* Scene.hit has start < t < end for the queried interval.
C4_StrictInterval ==
    (call.op \in {"Sphere::hit", "Scene::hit"} /\ IsSome(ret)) =>
        /\ ~IsNaN(Unwrap(ret).t)
        /\ call.t_range.start < Unwrap(ret).t
        /\ Unwrap(ret).t < call.t_range.end

\* A sphere whose only root after the interval's start lies exactly on the
\* interval's end: a real root, and no hit.
C4_Witness ==
    /\ call.op = "Sphere::hit"
    /\ ret = None
    /\ SphereQuadratic(call.sphere, call.ray)[3] > 0
    /\ SphereT1(call.sphere, call.ray) = call.t_range.end
    /\ call.t_range.start < call.t_range.end

C6_Bounded ==
    /\ Len(stack) - 1 <= call.bounces
    /\ queries <= call.bounces
    /\ \A i \in 1..Len(stack) : stack[i].bounces = call.bounces - (i - 1)

\* A natural number that every step of the call makes smaller.
C6_Variant ==
    IF pc = "call" THEN 2 * Top.bounces + Len(stack) + 2
    ELSE IF pc = "ret" THEN Len(stack)
    ELSE 0

\* A call that has not returned can take its next step.
C6_Progress ==
    /\ pc = "call" =>
          \/ BudgetExhausted(Top.bounces)
          \/ TopHit = None
          \/ AbsorbedAt(TopHit)
          \/ \E rnd \in ScatterDraws(Unwrap(TopHit).material) :
                IsSome(ScatterAt(Unwrap(TopHit), rnd))
    /\ pc \in {"call", "ret", "done"}
    /\ Len(stack) >= 1

\* C6: Ray.color terminates for every scene and every finite bounce budget: the
\* recursion is never deeper than `bounces`, at most `bounces` scene queries are
\* made for one call, and the call returns (every step lowers a natural number,
\* and a call that has not returned is never stuck).
C6_Terminates ==
    /\ [](C6_Bounded /\ C6_Progress /\ C6_Variant >= 0)
    /\ [][C6_Variant' < C6_Variant]_vars

\* Two facing perfect mirrors: the ray is scattered at every query until the
\* budget is used up.
C6_Witness ==
    /\ pc = "done"
    /\ list = SceneFrom(<<MirrorLeft, MirrorRight>>)
    /\ call.bounces = MaxBounces
    /\ queries = call.bounces
    /\ Len(path) = call.bounces

\* C7: with bounces == 0 Ray.color returns black without querying the scene, so a
\* path that scatters `bounces` times in a row gives black, whatever (finite)
\* attenuations it collected.
C7_ExhaustedIsBlack ==
    /\ (pc = "done" /\ call.bounces = 0) => (ret = Some(Black) /\ queries = 0)
    /\ (pc \in {"ret", "done"} /\ terminal.kind = "budget") =>
          /\ value = Black
          /\ Len(path) = call.bounces
          /\ queries = Len(path)

\* A path that scattered off coloured surfaces as often as the budget allows.
C7_Witness ==
    /\ pc = "done"
    /\ terminal.kind = "budget"
    /\ call.bounces >= 2
    /\ Len(path) = call.bounces
    /\ \A i \in 1..Len(path) : path[i] # White /\ path[i] # Black
    /\ ret = Some(Black)

\* The hit of the ray the colour call was started with.
FirstHit == SceneHit(list, call.ray, ColorRange)

\* C8: if the nearest hit of the ray is on an Absorbant material, Ray.color
\* returns exactly black for every budget >= 1, after that one scene query.
C8_AbsorbantIsBlack ==
    (/\ pc = "done"
     /\ call.bounces >= 1
     /\ IsSome(FirstHit)
     /\ Unwrap(FirstHit).material = Absorbant) =>
        /\ ret = Some(Black)
        /\ queries = 1
        /\ path = <<>>
        /\ terminal.kind = "absorbed"

\* A ray that lands on the absorbant sphere with budget left for more bounces,
\* in a scene that holds other objects too.
C8_Witness ==
    /\ pc = "done"
    /\ call.bounces >= 2
    /\ Len(list) >= 2
    /\ IsSome(FirstHit)
    /\ Unwrap(FirstHit).material = Absorbant
    /\ ret = Some(Black)

\* The setup is none of the configuration errors.
WellFormed(s) ==
    /\ s.width > 0
    /\ s.height > 0
    /\ FGt(s.v_fov, 0)
    /\ FGt(s.focus_distance, 0)
    /\ s.lookfrom # s.lookat
    /\ Cross(s.view_up, VSub(s.lookfrom, s.lookat)) # VZero

\* c is white * (1 - a) + sky-blue * a for an a in [0, 1], up to a rounding of
\* two units on a channel: red gives a, green and blue agree with it.
IsBackgroundBlend(c) ==
    LET a == 2 * (Scale - c[1])
    IN  /\ ~HasNaN(c)
        /\ -4 <= a
        /\ a <= Scale + 4
        /\ Abs(c[2] - (Scale - (3 * a) \div 10)) <= 4
        /\ Abs(c[3] - Scale) <= 2

\* The sum of the background colours of the sampling rays k, k+1, ... added to rgb.
RECURSIVE BackgroundSum(_, _, _, _, _)

BackgroundSum(px_i, px_j, draws, k, rgb) ==
    IF k > camera.samples_per_px
    THEN rgb
    ELSE BackgroundSum(px_i, px_j, draws, k + 1,
                       VAdd(rgb, Background(SamplingRay(camera, px_i, px_j, draws[k]))))

\* The average of the background colours of the sampling rays of a pixel.
BackgroundPixel(px_i, px_j, draws) ==
    VScale(BackgroundSum(px_i, px_j, draws, 1, VZero),
           FDiv(Scale, AsF64(camera.samples_per_px)))

\* The pixels written so far: all of them once render has returned.
WrittenPixels ==
    IF phase = "built" THEN {}
    ELSE { <<row, c>> \in Rows \X (0..(Width - 1)) : c < col[row] }

PixelAt(px) == image[Cell(Width, px[1], px[2])]

\* C9: with an empty scene and a bounce budget of at least 1, every pixel that
\* render writes is the background colour of its sampling rays (the average over
\* the samples) and is not black; for a setup that is no configuration error it
\* is a blend of white and sky-blue; the returned image has all its pixels written.
C9_EmptySceneBackground ==
    (list = SceneNew /\ camera.bounces >= 1) =>
        /\ \A px \in WrittenPixels :
              /\ PixelAt(px) # Black
              /\ PixelAt(px) = BackgroundPixel(px[2], px[1], tape[Cell(Width, px[1], px[2])])
              /\ WellFormed(setup) => IsBackgroundBlend(PixelAt(px))
        /\ phase = "returned" => WrittenPixels = Rows \X (0..(Width - 1))

\* The default camera has rendered the empty scene: the pixels of the two rows
\* are different blends.
C9_Witness ==
    /\ phase = "returned"
    /\ list = SceneNew
    /\ setup = Sized(DefaultSetup, MaxWidth, MaxHeight)
    /\ camera.bounces = 1
    /\ PixelAt(<<0, 0>>) # PixelAt(<<1, 0>>)
    /\ \A px \in WrittenPixels : IsBackgroundBlend(PixelAt(px))
    /\ Cardinality(WrittenPixels) = MaxWidth * MaxHeight

RECURSIVE AttenuationProduct(_, _)
\* atts[1] * (atts[2] * (... * color)), component-wise.
AttenuationProduct(atts, color) ==
    IF atts = <<>> THEN color
    ELSE VMul(atts[1], AttenuationProduct(Tail(atts), color))

\* C10: a call whose ray is scattered returns the scattered ray's attenuation
\* times the scattered ray's colour at budget - 1: every frame that has returned
\* gave the component-wise product of the attenuations scattered below it and
\* the colour the path ended with.
C10_AttenuationProduct ==
    /\ \A i \in 2..Len(stack) :
          /\ stack[i].bounces = stack[i - 1].bounces - 1
          /\ stack[i].ray.attenuation = path[i - 1]
    /\ pc \in {"ret", "done"} =>
          value = AttenuationProduct(SubSeq(path, Len(stack), Len(path)), terminal.color)

\* A path of two scatterings that ends in the background.
C10_Witness ==
    /\ pc = "done"
    /\ Len(path) >= 2
    /\ terminal.kind = "background"
    /\ value # Black
    /\ value # terminal.color
    /\ ret = Some(AttenuationProduct(path, terminal.color))

\* The colour of a surface: what a ray that lands on it and does not bounce is
\* tinted with.
SurfaceColour(material) ==
    IF material.kind \in {"Matte", "Metal"} THEN material.color
    ELSE IF material.kind = "Dielectric" THEN White
    ELSE Black

\* The colour of what the ray lands on: the first surface, or the background.
LandedOn(ray, hit) ==
    IF hit = None THEN Background(ray) ELSE SurfaceColour(Unwrap(hit).material)

LandedColour(ray) == LandedOn(ray, SceneHit(list, ray, ColorRange))

\* The sum of the landing colours of the sampling rays k, k+1, ... added to rgb.
RECURSIVE LandedSum(_, _, _, _, _)

LandedSum(px_i, px_j, draws, k, rgb) ==
    IF k > camera.samples_per_px
    THEN rgb
    ELSE LandedSum(px_i, px_j, draws, k + 1,
                   VAdd(rgb, LandedColour(SamplingRay(camera, px_i, px_j, draws[k]))))

LandedPixel(px_i, px_j, draws) ==
    VScale(LandedSum(px_i, px_j, draws, 1, VZero),
           FDiv(Scale, AsF64(camera.samples_per_px)))

\* C11: with a bounce amount of 0 every pixel that render writes is the colour
\* of the first surface its sampling rays land on, or the background where they
\* land on nothing (the average over the samples).
C11_ZeroBouncesLandingColour ==
    camera.bounces = 0 =>
        \A px \in WrittenPixels :
            PixelAt(px) = LandedPixel(px[2], px[1], tape[Cell(Width, px[1], px[2])])

\* A call of Material::scatter on a dielectric has returned.
DielectricCall == call.op = "Material::scatter" /\ call.material.kind = "Dielectric"

\* Refraction is geometrically impossible for the call: ri * sin(theta) > 1.
CannotRefract ==
    ~CanRefract(RefractionRatio(call.hit, call.material.ridx),
                SinTheta(CosTheta(Unit(call.ray.direction), call.hit.normal)))

\* The uniform draw of the call is below the Schlick reflectance.
DrawBelowReflectance ==
    FLt(call.draw,
        Reflectance(CosTheta(Unit(call.ray.direction), call.hit.normal), Scale,
                    call.material.ridx))

\* The ray the call returns when it reflects, and when it refracts.
ReflectedRay == RayNew(call.hit.point, ReflectDir(call.ray.direction, call.hit.normal))

RefractedRay ==
    RayNew(call.hit.point,
           RefractDir(Unit(call.ray.direction), call.hit.normal,
                      RefractionRatio(call.hit, call.material.ridx)))

\* C12: a dielectric reflects the ray if refraction is impossible or the draw is
\* below the reflectance, and refracts it otherwise.
C12_DielectricDecision ==
    DielectricCall =>
        IF CannotRefract \/ DrawBelowReflectance
        THEN ret = Some(ReflectedRay)
        ELSE ret = Some(RefractedRay)

\* A call of Material::scatter on a metal has returned.
MetalCall == call.op = "Material::scatter" /\ call.material.kind = "Metal"

\* The fuzz of the call, brought into [0, 1].
FuzzInRange ==
    IF call.material.fuzz < 0 THEN 0
    ELSE IF call.material.fuzz > Scale THEN Scale
    ELSE call.material.fuzz

\* The incoming direction mirrored about the normal: d - 2 (d . n) n.
Mirrored(d, n) == VSub(d, VScale(n, 2 * Dot(d, n)))

\* The mirrored direction plus the fuzz times the random unit vector.
FuzzedDirection ==
    VAdd(Mirrored(call.ray.direction, call.hit.normal),
         VScale(Unit(call.vec), FuzzInRange))

\* C13: a metal scatters the ray along the mirrored direction plus fuzz (clamped
\* into [0,1]) times a random unit vector; it absorbs the ray iff that direction
\* has direction . normal <= 0, and otherwise returns a ray from the hit point
\* with the metal's colour as attenuation.
C13_MetalScatter ==
    MetalCall =>
        IF Dot(FuzzedDirection, call.hit.normal) <= 0
        THEN ret = None
        ELSE ret = Some([origin |-> call.hit.point,
                         direction |-> FuzzedDirection,
                         attenuation |-> call.material.color])

\* A fuzz above 1 is clamped to 1, and the fuzzed direction of a head-on ray
\* ends in the surface: the ray is absorbed.
C13_Witness ==
    /\ MetalCall
    /\ call.material.fuzz > Scale
    /\ FuzzedDirection # Mirrored(call.ray.direction, call.hit.normal)
    /\ Dot(FuzzedDirection, call.hit.normal) = 0
    /\ ret = None

\* The cells of the image, and the pixel (row, column) of a cell.
Cells == 1..(Height * Width)

PixelOf(cell) == <<(cell - 1) \div Width, (cell - 1) % Width>>

\* C14: under every interleaving of the row tasks a pixel is written at most
\* once, and only by the task of its row, as its own pixel, with the value
\* sample_pixel(col, row); the pixels a task has passed are written, the others
\* are untouched, and when render returns every pixel is written exactly once.
C14_DisjointRowWrites ==
    phase \in {"rendering", "returned"} =>
        /\ DOMAIN writes = Cells
        /\ \A cell \in Cells :
              /\ Len(writes[cell]) <= 1
              /\ \A k \in 1..Len(writes[cell]) : writes[cell][k] = PixelOf(cell)
              /\ Len(writes[cell]) = 1 <=> PixelOf(cell)[2] < col[PixelOf(cell)[1]]
              /\ Len(writes[cell]) = 1 =>
                    image[cell] = SamplePixel(camera, PixelOf(cell)[2], PixelOf(cell)[1],
                                              list, tape[cell])
              /\ Len(writes[cell]) = 0 => image[cell] = Black
        /\ phase = "returned" => \A cell \in Cells : Len(writes[cell]) = 1

\* Two row tasks are both in the middle of their rows of a non-black image.
C14_Witness ==
    /\ phase = "rendering"
    /\ Height >= 2
    /\ Width >= 2
    /\ col[0] = 1
    /\ col[1] = 1
    /\ writes[1] = << <<0, 0>> >>
    /\ writes[Width + 1] = << <<1, 0>> >>
    /\ image[1] # Black
    /\ image[1] # image[Width + 1]

\* The sequential render: for j in 0..height, for i in 0..width,
\* image[(j, i)] = sample_pixel(i, j), `done` pixels being already written.
RECURSIVE SequentialFrom(_, _, _, _, _)
SequentialFrom(cam, l, draws, img, done) ==
    IF done >= cam.img_size[1] * cam.img_size[2]
    THEN img
    ELSE SequentialFrom(cam, l, draws,
             [img EXCEPT ![Cell(cam.img_size[1], done \div cam.img_size[1],
                                done % cam.img_size[1])] =
                 SamplePixel(cam, done % cam.img_size[1], done \div cam.img_size[1], l,
                             draws[done + 1])],
             done + 1)

SequentialRender(cam, l, draws) ==
    SequentialFrom(cam, l, draws, ImageInit(cam.img_size[2], cam.img_size[1]), 0)

\* C15: for a fixed camera, scene and draws of each pixel, the image that
\* render returns is, in every interleaving of the row tasks, the image of the
\* sequential row-by-row render.
C15_ScheduleIndependent ==
    phase = "returned" => image = SequentialRender(camera, list, tape)

\* A returned image of several rows whose pixels were sampled with different
\* draws and have different colours.
C15_Witness ==
    /\ phase = "returned"
    /\ Height >= 2
    /\ Width >= 2
    /\ tape[1] # tape[2]
    /\ image[1] # image[Width + 1]
    /\ image[1] # image[2]
    /\ image = SequentialRender(camera, list, tape)

\* C16: under fair scheduling of the row tasks a render that has started
\* eventually returns, and when it has returned every one of the height x width
\* pixels has been written by its task and every task has been counted.
C16_RenderCompletes ==
    /\ (phase = "rendering") ~> (phase = "returned")
    /\ [](phase = "returned" =>
            /\ \A cell \in Cells : writes[cell] = <<PixelOf(cell)>>
            /\ \A row \in Rows : col[row] = Width /\ rowpc[row] = "counted"
            /\ remaining = 0)

\* A render of several rows has returned with every pixel written.
C16_Witness ==
    /\ phase = "returned"
    /\ Height >= 2
    /\ remaining = 0
    /\ \A cell \in Cells : writes[cell] = <<PixelOf(cell)>>

\* C17: every camera built from a setup and changed by anti_aliasing and
\* bounces has at least one sample per pixel; anti_aliasing(n) leaves
\* max(1, n) samples, and the divisor of sample_pixel is never zero: the weight
\* 1 / samples_per_px is a finite number.
C17_SamplesAtLeastOne ==
    /\ camera.samples_per_px >= 1
    /\ call.op = "Camera::anti_aliasing" =>
          camera.samples_per_px = (IF call.samples >= 1 THEN call.samples ELSE 1)
    /\ call.op = "none" => camera.samples_per_px = 1
    /\ AsF64(camera.samples_per_px) # 0
    /\ FDiv(Scale, AsF64(camera.samples_per_px)) \notin {INFINITY, NegInf, NaN}

\* A pixel has been sampled by a camera on which anti_aliasing(0) was called.
C17_Witness ==
    /\ call.op = "Camera::anti_aliasing"
    /\ call.samples = 0
    /\ camera.samples_per_px = 1
    /\ phase = "rendering"
    /\ WrittenPixels # {}
    /\ \E px \in WrittenPixels : PixelAt(px) # Black

\* The channel of the pixel of the last calc_colors call after the gamma
\* correction x^(1/gamma).
GammaCorrected(i) == Powf(call.pixel[i], FDiv(Scale, call.gamma))

\* clamp(x, 0, 0.999) of a number x, and floor(256 * c).
ClampedChannel(x) == IF x < 0 THEN 0 ELSE IF x > 999 THEN 999 ELSE x

Floor256(c) == CHOOSE n \in 0..256 : n * Scale <= 256 * c /\ 256 * c < (n + 1) * Scale

\* The values the emitted value of a channel is compared with.
Probes == (0..(Scale + 1)) \cup { NegInf, -Scale, -1, 2 * Scale, INFINITY }

\* What C18 says of one channel: x is its gamma-corrected value, `others` are
\* the channels of the pixel, each with the value emitted for it.
ChannelQuantised(x, emitted, others) ==
    /\ emitted \in 0..255
    /\ ~IsNaN(x) => emitted = Floor256(ClampedChannel(x))
    /\ IsNaN(x) => emitted = 0
    /\ FLe(x, 0) => emitted = 0
    /\ FLe(999, x) => emitted = 255
    /\ \A other \in others : FLe(x, other[1]) => emitted <= other[2]
    /\ \A v \in Probes :
          /\ FLe(x, v) => emitted <= Quantise(v)
          /\ FLe(v, x) => Quantise(v) <= emitted

\* C18: for every gamma-corrected channel value x, calc_colors emits
\* floor(256 * clamp(x, 0, 0.999)): a value in 0..255, 0 for x <= 0, 255 for
\* x >= 0.999, and not decreasing in x; a NaN channel is emitted as 0.
C18_Quantisation ==
    call.op = "calc_colors" =>
        LET channels == { <<GammaCorrected(j), ret[j]>> : j \in 1..3 }
        IN  \A channel \in channels : ChannelQuantised(channel[1], channel[2], channels)

\* calc_colors was applied to a pixel with a channel below 0, one in the middle
\* and one above 1.
C18_Witness ==
    /\ call.op = "calc_colors"
    /\ call.pixel = Vec3(-500, 500, 1500)
    /\ call.gamma = Scale
    /\ ret = <<0, 128, 255>>

\* The bytes of a PPM file of the image, as the format lays them out: the magic
\* number, the width and the height, 255, and then the pixels from the top
\* row, from left to right, a text line or three bytes each.
ExpectedHeader ==
    (IF format = "plain" THEN <<80, 51>> ELSE <<80, 54>>) \o <<10>> \o Decimal(Width)
        \o <<32>> \o Decimal(Height) \o <<10, 50, 53, 53, 10>>

ExpectedRecord(c) ==
    IF format = "plain"
    THEN Decimal(c[1]) \o <<32>> \o Decimal(c[2]) \o <<32>> \o Decimal(c[3]) \o <<10>>
    ELSE c

RECURSIVE ExpectedPixels(_, _)
ExpectedPixels(row, column) ==
    IF row >= Height THEN <<>>
    ELSE IF column >= Width THEN ExpectedPixels(row + 1, 0)
    ELSE ExpectedRecord(CalcColors(PixelAt(<<row, column>>), gamma))
             \o ExpectedPixels(row, column + 1)

ExpectedFile == ExpectedHeader \o ExpectedPixels(0, 0)

IsPrefix(s, t) == Len(s) <= Len(t) /\ s = SubSeq(t, 1, Len(s))

\* C19: what plain() and raw() have written is at every moment a prefix of
\* the file (so the header comes once and first, and the pixel records follow
\* in row-major order), on Ok the writer has the whole file, and the image is
\* not modified.
C19_PpmLayout ==
    /\ [](wpc # "none" => IsPrefix(out \o buffered, ExpectedFile))
    /\ [](result = "Ok" => out = ExpectedFile)
    /\ [][image' = image]_vars

\* The image of ppm.rs's test correct_plain_ppm has been written as the test
\* expects it.
C19_Witness ==
    /\ result = "Ok"
    /\ format = "plain"
    /\ Width = 2
    /\ Height = 2
    /\ image = <<Black, Black, Black, Red>>
    /\ out = <<80, 51, 10, 50, 32, 50, 10, 50, 53, 53, 10,
               48, 32, 48, 32, 48, 10, 48, 32, 48, 32, 48, 10, 48, 32, 48, 32, 48, 10,
               50, 53, 53, 32, 48, 32, 48, 10>>

\* C20: a failure of the writer, in the header, in a pixel or in the flush,
\* makes plain() and raw() return Err with that error; Ok is returned only
\* after the header, every pixel and the flush went through.
C20_FailuresPropagate ==
    /\ fault # "none" => result = fault /\ wpc = "returned"
    /\ wpc = "returned" => result \in IoErrors \cup {"Ok"}
    /\ result \in IoErrors => fault = result
    /\ result = "Ok" =>
          /\ fault = "none"
          /\ cursor = <<Height + 1, 1>>
          /\ buffered = <<>>
          /\ Len(out) = Len(ExpectedFile)

\* The write of a pixel of the second line has failed and Err was returned.
C20_Witness ==
    /\ wpc = "returned"
    /\ result = "StorageFull"
    /\ fault = "StorageFull"
    /\ cursor = <<2, 1>>
    /\ out # <<>>

\* The cells of an image of the camera's size, counted row after row.
RowMajor(row, column) == row * Width + column + 1

\* C21: Image::init gives height * width black pixels; an index with
\* row >= height or col >= width panics and touches no pixel, so (0, width)
\* is never pixel (1, 0); a valid index reads or writes its own cell, and a
\* write leaves the cell of every other valid index as it was.
C21_BoundsCheckedRowMajor ==
    /\ [](call = NoCall => image = [k \in 1..(Height * Width) |-> Black])
    /\ [](Len(image) = Height * Width)
    /\ [][call'.op \in {"Image::index_mut", "Image::index"} =>
            IF call'.row >= Height \/ call'.col >= Width
            THEN phase' = "panicked" /\ image' = image
            ELSE /\ phase' = phase
                 /\ \A row \in 0..(Height - 1), column \in 0..(Width - 1) :
                       <<row, column>> # <<call'.row, call'.col>> =>
                           /\ RowMajor(row, column) # RowMajor(call'.row, call'.col)
                           /\ image'[RowMajor(row, column)] = image[RowMajor(row, column)]
                 /\ call'.op = "Image::index_mut" =>
                       image'[RowMajor(call'.row, call'.col)] = call'.color
                 /\ call'.op = "Image::index" =>
                       /\ image' = image
                       /\ ret' = Some(image[RowMajor(call'.row, call'.col)])]_vars

\* A write at (0, width) has panicked and pixel (1, 0) is still black.
C21_Witness ==
    /\ phase = "panicked"
    /\ call.op = "Image::index_mut"
    /\ call.row = 0
    /\ call.col = Width
    /\ Height >= 2
    /\ image[Width + 1] = Black
    /\ image[1] = Red

\* How often an object is in a sequence.
Occurrences(seq, obj) == Cardinality({ i \in 1..Len(seq) : seq[i] = obj })

\* C22: the list of a scene built by new or from and then by add and append
\* calls holds the objects that were passed, in the order in which they were
\* passed, each as often as it was passed.
C22_KeepsEveryObject ==
    /\ Len(list) = Len(passed)
    /\ \A i \in 1..Len(passed) : list[i] = Wrap(passed[i])
    /\ \A obj \in Pool : Occurrences(list, Wrap(obj)) = Occurrences(passed, obj)

\* A scene of three objects, one of them passed twice.
C22_Witness ==
    /\ Len(passed) = 3
    /\ passed[1] = passed[3]
    /\ passed[1] # passed[2]
    /\ list = <<Wrap(passed[1]), Wrap(passed[2]), Wrap(passed[1])>>

MatteCall == call.op = "Material::scatter" /\ call.material.kind = "Matte"

\* hit.normal + random unit vector, for the sample the call drew.
MatteSum == VAdd(call.hit.normal, Unit(call.vec))

\* Every component of the sum is below the epsilon in absolute value, which is
\* below the resolution of the numbers here.
MatteSumNearZero == \A i \in 1..3 : MatteSum[i] = 0

\* C23: matte scatter always returns a ray, from the hit point, with the
\* material's colour as attenuation and the direction normal + random unit
\* vector, or the normal when that sum is near zero; the direction is never
\* the zero vector.
C23_MatteScatter ==
    MatteCall =>
        /\ ret = Some([origin |-> call.hit.point,
                       direction |-> IF MatteSumNearZero THEN call.hit.normal ELSE MatteSum,
                       attenuation |-> call.material.color])
        /\ Unwrap(ret).direction # VZero

\* The random unit vector was the opposite of the normal and the normal became
\* the direction.
C23_Witness ==
    /\ MatteCall
    /\ MatteSumNearZero
    /\ call.hit.normal # VZero
    /\ IsSome(ret)
    /\ Unwrap(ret).direction = call.hit.normal
    /\ Unwrap(ret).attenuation = Red

\* C24: whatever the material, the ray and the hit, a ray that
\* Material::scatter returns starts at the hit point.
C24_ScatterOriginIsHitPoint ==
    call.op = "Material::scatter" /\ IsSome(ret) => Unwrap(ret).origin = call.hit.point

\* A metal has scattered a ray that came from elsewhere.
C24_Witness ==
    /\ call.op = "Material::scatter"
    /\ call.material.kind = "Metal"
    /\ IsSome(ret)
    /\ Unwrap(ret).origin = call.hit.point
    /\ call.hit.point # call.ray.origin
    /\ call.hit.point # VZero

SamplingCall == call.op = "Camera::sampling_ray"

JitterOff == camera.samples_per_px = 1 /\ ~(camera.defocus_angle > 0)

\* The centre of the pixel of the last sampling_ray call.
PixelCentre ==
    VAdd(VAdd(camera.px_00, VScale(camera.px_d_u, AsF64(call.px_i))),
         VScale(camera.px_d_v, AsF64(call.px_j)))

\* The camera has the default orientation, the image has an odd width and
\* height, and the call was for the pixel in its middle.
MiddleOfDefaultView ==
    /\ setup.lookfrom = DefaultSetup.lookfrom
    /\ setup.lookat = DefaultSetup.lookat
    /\ setup.view_up = DefaultSetup.view_up
    /\ Width % 2 = 1
    /\ Height % 2 = 1
    /\ 2 * call.px_i = Width - 1
    /\ 2 * call.px_j = Height - 1

\* C25: with one sample per pixel the antialiasing offset is zero, with an
\* aperture angle of 0 or less the defocus offset is zero, and then
\* sampling_ray gives for a pixel the same ray whatever is drawn, also in a
\* following call: the ray from the camera centre through the centre of the
\* pixel, which has no x and y component for the middle pixel of the default
\* view. With more samples the offset is in [-0.5, 0.5) on each axis.
C25_DeterministicSampling ==
    /\ [](SamplingCall =>
            /\ camera.samples_per_px = 1 => call.px_offset = VZero
            /\ camera.samples_per_px > 1 =>
                  /\ call.px_offset[1] \in -500..499
                  /\ call.px_offset[2] \in -500..499
                  /\ call.px_offset[3] = 0
            /\ ~(camera.defocus_angle > 0) => call.origin_offset = VZero
            /\ JitterOff =>
                  /\ Unwrap(ret).origin = camera.center
                  /\ Unwrap(ret).direction = VSub(PixelCentre, camera.center)
                  /\ \A draw \in { DrawA, DrawB } :
                        SamplingRay(camera, call.px_i, call.px_j, draw) = Unwrap(ret)
            /\ JitterOff /\ MiddleOfDefaultView =>
                  Unwrap(ret).direction[1] = 0 /\ Unwrap(ret).direction[2] = 0)
    /\ [][(/\ SamplingCall
           /\ JitterOff
           /\ camera' = camera
           /\ call'.op = "Camera::sampling_ray"
           /\ call'.px_i = call.px_i
           /\ call'.px_j = call.px_j) => ret' = ret]_vars

\* The ray of the middle pixel of a 3 x 3 image of the default camera, which
\* does not jitter.
C25_Witness ==
    /\ SamplingCall
    /\ JitterOff
    /\ MiddleOfDefaultView
    /\ Width = 3
    /\ Height = 3
    /\ Unwrap(ret).origin = camera.center
    /\ Unwrap(ret).direction[1] = 0
    /\ Unwrap(ret).direction[2] = 0
    /\ Unwrap(ret).direction[3] < 0

\* ------------------------------------------- C26: normals of sphere hits --

\* The returned hit of the Sphere::hit call on record.
SphereHitReturned == call.op = "Sphere::hit" /\ IsSome(ret)

\* A vector of length one, up to the rounding of the fixed-point arithmetic.
IsUnitLength(v) ==
    /\ ~IsNaN(NormSq(v))
    /\ NormSq(v) >= Scale - 10
    /\ NormSq(v) <= Scale + 10

\* C26: every hit Sphere::hit returns carries a unit-length normal, for every
\* sphere Sphere::new can build (a zero or negative radius is stored as 0), and
\* the division by the radius that yields it never has a zero divisor.
C26_UnitNormal ==
    SphereHitReturned =>
        /\ IsUnitLength(Unwrap(ret).normal)
        /\ call.sphere.radius # 0

\* The same for the spheres of positive radius only.
C26_UnitNormalPositiveRadius ==
    (SphereHitReturned /\ call.sphere.radius > 0) =>
        IsUnitLength(Unwrap(ret).normal)

\* A sphere built with a negative radius returns a hit.
C26_ZeroRadiusHit ==
    /\ SphereHitReturned
    /\ call.sphere.radius = 0

\* ------------------------------------- C27: a dielectric never absorbs --

\* C27: a dielectric never absorbs and never tints: scatter on it always
\* returns a ray, the reflected or the refracted one, and the attenuation of
\* that ray is exactly (1, 1, 1).
C27_DielectricNeverAbsorbs ==
    DielectricCall =>
        /\ IsSome(ret)
        /\ Unwrap(ret).attenuation = Vec3(Scale, Scale, Scale)
        /\ Unwrap(ret).origin = call.hit.point
        /\ \/ Unwrap(ret).direction = ReflectedRay.direction
           \/ Unwrap(ret).direction = RefractedRay.direction

\* A dielectric has returned the reflected ray, which differs from the
\* refracted one, and the returned ray is white.
C27_Witness ==
    /\ DielectricCall
    /\ IsSome(ret)
    /\ Unwrap(ret).direction = ReflectedRay.direction
    /\ Unwrap(ret).direction # RefractedRay.direction
    /\ Unwrap(ret).attenuation = Vec3(Scale, Scale, Scale)

\* A dielectric has returned the refracted ray.
C27_Refracted ==
    /\ DielectricCall
    /\ IsSome(ret)
    /\ Unwrap(ret).direction = RefractedRay.direction
    /\ Unwrap(ret).direction # ReflectedRay.direction

\* ------------------------------------------ C28: ties in Scene::hit -----

SceneHitCall == call.op = "Scene::hit"

\* What each object of the list returns for the caller's ray and interval.
OwnHits == [i \in 1..Len(list) |-> ObjectHit(list[i], call.ray, call.t_range)]

\* The objects whose hit is at the smallest t of all.
NearestAmong(hits) ==
    { i \in DOMAIN hits :
        /\ IsSome(hits[i])
        /\ \A j \in DOMAIN hits : IsSome(hits[j]) => Unwrap(hits[i]).t <= Unwrap(hits[j]).t }

FirstOf(indices) == CHOOSE i \in indices : \A j \in indices : i <= j

\* closest_hit after the first k iterations of the loop (at index k + 1).
ClosestHits ==
    [k \in 1..(Len(list) + 1) |-> SceneHit(SubSeq(list, 1, k - 1), call.ray, call.t_range)]

\* t_max after the iterations that left `closest`.
TMaxOf(closest) == IF IsSome(closest) THEN Unwrap(closest).t ELSE call.t_range.end

\* The scan never raises t_max and replaces the closest hit only by a hit of a
\* strictly smaller t, the one of the object of that iteration.
ScanShrinks(closest) ==
    \A k \in 1..Len(list) :
        /\ TMaxOf(closest[k + 1]) <= TMaxOf(closest[k])
        /\ closest[k + 1] # closest[k] =>
              /\ IsSome(closest[k + 1])
              /\ Unwrap(closest[k + 1]).t < TMaxOf(closest[k])
              /\ Unwrap(closest[k + 1]).material = list[k].material

FirstNearestReturned(hits, nearest) == nearest # {} => ret = hits[FirstOf(nearest)]

\* C28: when several objects are hit at exactly the same smallest t, Scene::hit
\* returns the hit of the one that comes first in the list; during the scan
\* t_max never increases, and an object replaces the closest hit only with a
\* hit whose t is strictly smaller than t_max.
C28_FirstOfEqualWins ==
    SceneHitCall =>
        /\ FirstNearestReturned(OwnHits, NearestAmong(OwnHits))
        /\ ScanShrinks(ClosestHits)

TieOf(nearest) ==
    \E i \in nearest, j \in nearest :
        /\ i < j
        /\ list[i].material # list[j].material
        /\ Unwrap(ret).material = list[i].material

\* Two objects of different materials are hit at the same smallest t, and the
\* hit returned is the one of the earlier object.
C28_Witness ==
    /\ SceneHitCall
    /\ IsSome(ret)
    /\ TieOf(NearestAmong(OwnHits))

\* ------------------------------- C29: Scene::hit and the objects' order --

\* The list with the objects at i and j exchanged.
Exchanged(l, i, j) == [l EXCEPT ![i] = l[j], ![j] = l[i]]

\* No two objects of the list are hit at the same t.
DistinctDistances(hits) ==
    \A i \in DOMAIN hits, j \in DOMAIN hits :
        (i < j /\ IsSome(hits[i]) /\ IsSome(hits[j])) => Unwrap(hits[i]).t # Unwrap(hits[j]).t

\* What Scene::hit returns for the same ray and interval with two objects of
\* the list exchanged, for every two of them.
ExchangedResults ==
    { SceneHit(Exchanged(list, i, j), call.ray, call.t_range) :
        i \in 1..Len(list), j \in 1..Len(list) }

\* C29: when no two objects are hit at the same t, Scene::hit does not depend
\* on the order of the objects: the same objects in another order give the same
\* Hit, or None as well. Every order of the same objects is a scene of the
\* model, and every reordering is a chain of exchanges of two objects.
C29_OrderIndependent ==
    (SceneHitCall /\ DistinctDistances(OwnHits)) => ExchangedResults \subseteq { ret }

\* Two objects are hit at different distances, the farther one comes first in
\* the list, and the hit returned is the nearer one's.
C29_Witness ==
    /\ SceneHitCall
    /\ DistinctDistances(OwnHits)
    /\ Len(list) >= 2
    /\ IsSome(OwnHits[1])
    /\ IsSome(OwnHits[2])
    /\ Unwrap(OwnHits[2]).t < Unwrap(OwnHits[1]).t
    /\ ret = OwnHits[2]
    /\ ExchangedResults = { ret }

\* With equal distances the order does matter: exchanging two objects changes
\* the hit returned.
C29_OrderMattersOnTie ==
    /\ SceneHitCall
    /\ ~DistinctDistances(OwnHits)
    /\ ExchangedResults # { ret }

\* --------------------------------- C30: the progress counter of render --

\* The rows whose task has not yet counted them.
RowsNotCompleted == { row \in Rows : rowpc[row] # "counted" }

\* Every pixel of the row has been written.
RowWritten(row) ==
    \A c \in 0..(Width - 1) : writes[Cell(Width, row, c)] = << <<row, c>> >>

\* The counter while render runs and after: never below 0, the number of rows
\* not yet completed.
CounterCountsRows ==
    phase \in {"rendering", "returned"} =>
        /\ remaining >= 0
        /\ remaining <= Height
        /\ remaining = Cardinality(RowsNotCompleted)

\* A step changes the counter only by setting it to the height when render
\* starts, or by taking one off for one row whose pixels are all written and
\* which is counted by that step and never before; such a step writes no pixel.
CounterStep ==
    remaining' # remaining =>
        \/ /\ phase = "built"
           /\ phase' = "rendering"
           /\ remaining' = Height
        \/ /\ phase = "rendering"
           /\ remaining' = remaining - 1
           /\ image' = image
           /\ \E row \in Rows :
                 /\ RowWritten(row)
                 /\ rowpc[row] # "counted"
                 /\ rowpc' = [rowpc EXCEPT ![row] = "counted"]

\* A step that writes a pixel leaves the counter alone, and the value written
\* is sample_pixel(col, row) whatever the counter is.
PixelStep ==
    (phase = "rendering" /\ image' # image) =>
        /\ remaining' = remaining
        /\ \E row \in Rows :
              image' = [image EXCEPT ![Cell(Width, row, col[row])] =
                           SamplePixel(camera, col[row], row, list,
                                       tape[Cell(Width, row, col[row])])]

\* C30: the progress counter of render starts at the image height, is
\* decremented exactly once per row and only after all pixels of that row are
\* written, never goes below 0, equals the number of rows not yet completed,
\* and is 0 when render returns; its value never influences a pixel.
C30_ProgressCounter ==
    /\ []CounterCountsRows
    /\ [](phase = "returned" => remaining = 0 /\ RowsNotCompleted = {})
    /\ [][CounterStep /\ PixelStep]_vars

\* One row of several is counted while another task is still in the middle of
\* its row: the counter is between 0 and the height.
C30_Witness ==
    /\ phase = "rendering"
    /\ Height >= 2
    /\ Width >= 2
    /\ rowpc[0] = "pixels"
    /\ col[0] = 1
    /\ rowpc[1] = "counted"
    /\ RowWritten(1)
    /\ remaining = Height - 1

====
